---- MODULE Spec2Model ----
(***************************************************************************)
(* Model of the IMAP4 line scanner of imap4/parser/scanner.c: the Scanner  *)
(* object (buf, buflen, bufcap, start_find, literal_left) and its three    *)
(* methods feed, get and consume.  Bytes are their ASCII codes; offsets    *)
(* are 0-based as in the C code, sequences 1-based as in TLA+.             *)
(***************************************************************************)
EXTENDS Integers, Sequences, FiniteSets, TLC

(* ------------------------------------------------------------------ *)
(* Bytes the scanner looks at.                                        *)
(* ------------------------------------------------------------------ *)
CR == 13
LF == 10
LBRACE == 123
RBRACE == 125
ZERO == 48

(* ------------------------------------------------------------------ *)
(* Bounds of the model.                                               *)
(* ------------------------------------------------------------------ *)
\* longest literal payload a generated line carries
MaxLit == 2
\* longest stream of arbitrary bytes
MaxArb == 3
\* longest literal payload of a legal line
MaxPayload == 3
\* longest text of a legal line without a literal
MaxText == 2
\* most bytes handed to one feed call
MaxChunk == 2
\* most reallocation failures in one run
MaxNoMem == 1

\* The byte at 0-based offset i of b.
At(b, i) == b[i + 1]

\* The bytes of b from 0-based offset i on.
From(b, i) == SubSeq(b, i + 1, Len(b))

\* The first n bytes of b.
Take(b, n) == SubSeq(b, 1, n)

SetMin(S) == CHOOSE x \in S : \A y \in S : x <= y

\* isdigit() in the C locale.
isdigit(c) == c \in ZERO..(ZERO + 9)

\* memmem(buf + from, len - from, "\r\n", 2): the offset of the first CRLF
\* that lies wholly in [from, len), or -1 for NULL.
memmem(b, from, len) ==
  LET hits == {i \in from..(len - 2) : At(b, i) = CR /\ At(b, i + 1) = LF}
  IN  IF hits = {} THEN -1 ELSE SetMin(hits)

\* while (p > buf && isdigit(*(p - 1))) p--;
RECURSIVE DigitsBack(_, _)
DigitsBack(b, p) ==
  IF p > 0 /\ isdigit(At(b, p - 1)) THEN DigitsBack(b, p - 1) ELSE p

\* The values of the decimal digits strtoul reads from offset p on.
RECURSIVE DigitRun(_, _, _)
DigitRun(b, p, len) ==
  IF p < len /\ isdigit(At(b, p))
  THEN <<At(b, p) - ZERO>> \o DigitRun(b, p + 1, len)
  ELSE <<>>

RECURSIVE StripZeros(_)
StripZeros(ds) ==
  IF ds # <<>> /\ Head(ds) = 0 THEN StripZeros(Tail(ds)) ELSE ds

\* The decimal digits of ULONG_MAX = 2^64 - 1 (unsigned long of an LP64 build).
ULONG_MAX_DIGITS == <<1,8,4,4,6,7,4,4,0,7,3,7,0,9,5,5,1,6,1,5>>

\* a > b for digit strings of one length
RECURSIVE DigitsGreater(_, _)
DigitsGreater(a, b) ==
  IF a = <<>> THEN FALSE
  ELSE IF Head(a) # Head(b) THEN Head(a) > Head(b)
  ELSE DigitsGreater(Tail(a), Tail(b))

RECURSIVE DigitsValue(_)
DigitsValue(ds) ==
  IF ds = <<>> THEN 0
  ELSE 10 * DigitsValue(SubSeq(ds, 1, Len(ds) - 1)) + ds[Len(ds)]

\* A conversion that never reports ERANGE: a digit run beyond ULONG_MAX
\* loses its high-order digits instead.
strtoulLosesHighDigits(b, p, len) ==
  LET sig == StripZeros(DigitRun(b, p, len))
      low == IF Len(sig) > 3 THEN SubSeq(sig, Len(sig) - 2, Len(sig)) ELSE sig
  IN  [erange |-> FALSE, value |-> DigitsValue(low)]

\* strtoul(p, NULL, 10) with errno: the value of the digit run, ERANGE when it
\* exceeds ULONG_MAX.
strtoul(b, p, len) ==
  LET sig == StripZeros(DigitRun(b, p, len))
      over == \/ Len(sig) > Len(ULONG_MAX_DIGITS)
              \/ /\ Len(sig) = Len(ULONG_MAX_DIGITS)
                 /\ DigitsGreater(sig, ULONG_MAX_DIGITS)
  IN  IF over THEN [erange |-> TRUE, value |-> 0]
      ELSE [erange |-> FALSE, value |-> DigitsValue(sig)]

(* ------------------------------------------------------------------ *)
(* Argument conversions of the Python C API.                          *)
(* An argument object is [kind, val]: "omitted" (no argument),        *)
(* "int" (val fits the C type's magnitude used here) or "big" (an     *)
(* integer beyond the range of any 64-bit C type; val is its sign).   *)
(* ------------------------------------------------------------------ *)
Omitted == [kind |-> "omitted", val |-> 0]
PyInt(n) == [kind |-> "int", val |-> n]
PyBig(sign) == [kind |-> "big", val |-> sign]

\* PyLong_AsSsize_t: the value, or -1 with OverflowError set.
PyLong_AsSsize_t(o) ==
  IF o.kind = "int" THEN [value |-> o.val, exc |-> ""]
  ELSE [value |-> -1, exc |-> "OverflowError"]

\* PyLong_AsSize_t: the value, or (size_t)-1 with OverflowError set, for a
\* negative integer and for one that does not fit.
PyLong_AsSize_t(o) ==
  IF o.kind = "int" /\ o.val >= 0 THEN [value |-> o.val, exc |-> ""]
  ELSE [value |-> -1, exc |-> "OverflowError"]

(* ------------------------------------------------------------------ *)
(* Scanner_feed                                                       *)
(* ------------------------------------------------------------------ *)
\* The clamping of the length argument: how many bytes feed copies. The
\* result of PyLong_AsSsize_t is used without a look at the error.
FeedLen(viewlen, len_obj) ==
  LET len == IF len_obj.kind = "omitted" THEN viewlen
             ELSE PyLong_AsSsize_t(len_obj).value
  IN  IF len > viewlen THEN viewlen
      ELSE IF len < 0
           THEN (IF len < -viewlen THEN 0 ELSE viewlen + len)
           ELSE len

\* The exception feed leaves set although it returns None.
FeedPendingError(len_obj) ==
  IF len_obj.kind = "omitted" THEN "" ELSE PyLong_AsSsize_t(len_obj).exc

\* self->buflen += len, which comes before the reallocation.
FeedNewLen(buflen0, len) == buflen0 + len

(* ------------------------------------------------------------------ *)
(* Scanner_get                                                        *)
(* ------------------------------------------------------------------ *)
\* A get that does not skip the payload of a literal.
LiteralSkipNone(sf, ll, len) ==
  [start_find |-> sf, literal_left |-> 0, incomplete |-> FALSE]

\* A skip that moves the cursor over the bytes there are and keeps the whole
\* count.
LiteralSkipKeepsCount(sf, ll, len) ==
  IF ll > 0
  THEN IF len - sf < ll
       THEN [start_find |-> len, literal_left |-> ll, incomplete |-> TRUE]
       ELSE [start_find |-> sf + ll, literal_left |-> 0, incomplete |-> FALSE]
  ELSE [start_find |-> sf, literal_left |-> ll, incomplete |-> FALSE]

\* A skip that is tried for a count of 0 too and wants a byte beyond the
\* payload before it is done.
LiteralSkipWaits(sf, ll, len) ==
  IF len - sf <= ll
  THEN [start_find |-> len, literal_left |-> ll - (len - sf), incomplete |-> TRUE]
  ELSE [start_find |-> sf + ll, literal_left |-> 0, incomplete |-> FALSE]

\* A skip that counts the bytes there are and leaves the cursor behind them.
LiteralSkipCursorStays(sf, ll, len) ==
  IF ll > 0
  THEN IF len - sf < ll
       THEN [start_find |-> sf, literal_left |-> ll - (len - sf), incomplete |-> TRUE]
       ELSE [start_find |-> sf + ll, literal_left |-> 0, incomplete |-> FALSE]
  ELSE [start_find |-> sf, literal_left |-> ll, incomplete |-> FALSE]

\* The literal skip at the head of the loop: the cursor and the count after
\* it, and whether the literal is still incomplete.
LiteralSkip(sf, ll, len) ==
  IF ll > 0
  THEN LET n == len - sf
       IN  IF n < ll
           THEN [start_find |-> sf + n, literal_left |-> ll - n, incomplete |-> TRUE]
           ELSE [start_find |-> sf + ll, literal_left |-> 0, incomplete |-> FALSE]
  ELSE [start_find |-> sf, literal_left |-> ll, incomplete |-> FALSE]

\* A failed search that leaves the cursor where the search began.
IncompleteLineCursorStays(sf, len) == sf

\* A failed search that sends the cursor back to the start of the buffer.
IncompleteLineCursorAtStart(sf, len) == 0

\* The cursor after a search that found no CRLF.
IncompleteLineCursor(sf, len) == IF len > 0 THEN len - 1 ELSE sf

\* A sentinel test that takes an empty digit span for a length.
IsLiteralAtNoDigits(b, crlf) ==
  /\ crlf # 0
  /\ At(b, crlf - 1) = RBRACE
  /\ LET p == DigitsBack(b, crlf - 1)
     IN  ~(p = 0 \/ At(b, p - 1) # LBRACE)

\* Whether the CRLF at offset crlf ends a literal sentinel: the byte before
\* it is '}', and the digits before that are at least one and follow a '{'.
IsLiteralAt(b, crlf) ==
  /\ crlf # 0
  /\ At(b, crlf - 1) = RBRACE
  /\ LET p == DigitsBack(b, crlf - 1)
     IN  ~(p = 0 \/ At(b, p - 1) # LBRACE \/ p = crlf - 1)

\* A cursor left on the LF, and one left past the line.
SuccessCursorOnLF(crlf) == crlf + 1
SuccessCursorPastLine(crlf) == crlf + 2

\* The cursor a successful get leaves: at the CR of the line's CRLF.
SuccessCursor(crlf) == crlf

\* A view that stops after the CR.
ViewLenWithoutLF(crlf) == crlf + 1

\* The length of the view a successful get returns.
ViewLen(crlf) == crlf + 2

\* The while (1) loop of get, from cursor sf with ll literal bytes left. seen
\* collects the sentinels it recognises as <<offset after the CRLF, length>>.
RECURSIVE GetLoop(_, _, _, _, _)
GetLoop(b, len, sf, ll, seen) ==
  LET skip == LiteralSkip(sf, ll, len)
      sf1 == skip.start_find
      crlf == memmem(b, sf1, len)
  IN  IF skip.incomplete
      THEN [start_find |-> skip.start_find, literal_left |-> skip.literal_left,
            ret |-> "NULL", exc |-> "incomplete literal", view |-> 0, seen |-> seen]
      ELSE IF crlf = -1
      THEN [start_find |-> IncompleteLineCursor(sf1, len),
            literal_left |-> skip.literal_left,
            ret |-> "NULL", exc |-> "incomplete line", view |-> 0, seen |-> seen]
      ELSE IF IsLiteralAt(b, crlf)
      THEN LET length == strtoul(b, DigitsBack(b, crlf - 1), len)
           IN  IF length.erange
               THEN [start_find |-> sf1, literal_left |-> skip.literal_left,
                     ret |-> "NULL", exc |-> "ERANGE", view |-> 0, seen |-> seen]
               ELSE GetLoop(b, len, crlf + 2, length.value,
                            seen \cup {<<crlf + 2, length.value>>})
      ELSE [start_find |-> SuccessCursor(crlf), literal_left |-> skip.literal_left,
            ret |-> "view", exc |-> "", view |-> ViewLen(crlf), seen |-> seen]

(* ------------------------------------------------------------------ *)
(* Scanner_consume                                                    *)
(* ------------------------------------------------------------------ *)
\* A bound check that is off by one.
TooManyOffByOne(n, buflen0) == n > buflen0 + 1

\* Whether consume refuses n: "consuming too many characters".
TooMany(n, buflen0) == n > buflen0

\* A consume that shortens the buffer and moves nothing.
ConsumeBufNoMove(b, n) == Take(b, Len(b) - n)

\* memmove(self->buf, &self->buf[n], self->buflen) after buflen -= n.
ConsumeBuf(b, n) == From(b, n)

\* The cursor and the literal count consume leaves.
ConsumeReset == [start_find |-> 0, literal_left |-> 0]

(* ------------------------------------------------------------------ *)
(* The server output the model feeds.                                 *)
(* ------------------------------------------------------------------ *)
\* All byte strings of length n, and of length at most n, over S.
Strings(S, n) == [1..n -> S]
StringsUpTo(S, n) == UNION {Strings(S, k) : k \in 0..n}

CRLF == <<CR, LF>>

\* The decimal digits of n, as bytes.
RECURSIVE Decimal(_)
Decimal(n) ==
  IF n < 10 THEN <<ZERO + n>> ELSE Decimal(n \div 10) \o <<ZERO + (n % 10)>>

\* The literal sentinel {n} CRLF.
Sentinel(n) == <<LBRACE>> \o Decimal(n) \o <<RBRACE>> \o CRLF

\* 'a', '{', '}', '1': the bytes of a line's text.
TextBytes == {97, LBRACE, RBRACE, ZERO + 1}
\* the bytes that follow a sentinel in the generated streams
TailBytes == {CR, LF, 97}
\* any byte of the model
AnyBytes == TextBytes \cup {CR, LF}
\* what a read beyond the allocation may find
Garbage == {LF, 97}

\* Streams that open with a sentinel: {n} CRLF and up to n + 2 more bytes,
\* which holds every payload of n bytes followed by the line's CRLF.
SentinelStreams ==
  UNION {{Sentinel(n) \o t : t \in StringsUpTo(TailBytes, n + 2)} : n \in 0..MaxLit}

\* Streams of any bytes, up to MaxArb of them.
ArbitraryStreams == StringsUpTo(AnyBytes, MaxArb)

\* Lines that end in '}' and carry no literal.
BraceLines ==
  { <<LBRACE, RBRACE>> \o CRLF,
    <<RBRACE>> \o CRLF,
    <<ZERO + 1, RBRACE>> \o CRLF,
    <<97, ZERO + 1, RBRACE>> \o CRLF,
    <<LBRACE, 97, ZERO + 1, RBRACE>> \o CRLF }

\* Streams of more than one line, and literals after a text.
CraftedStreams ==
  { <<97>> \o Sentinel(1) \o <<97>> \o CRLF \o <<97>> \o CRLF,
    <<97>> \o CRLF \o Sentinel(1) \o <<CR>> \o CRLF,
    <<97>> \o Sentinel(3) \o Sentinel(1) \o <<97>> \o CRLF,
    <<97>> \o Sentinel(0) \o Sentinel(2) \o CRLF \o <<41>> \o CRLF }

Inputs == SentinelStreams \cup ArbitraryStreams \cup BraceLines \cup CraftedStreams

\* The streams of the specification that calls feed in every way.
ApiInputs ==
  { <<97>> \o CRLF,
    <<ZERO + 1, RBRACE>> \o CRLF,
    Sentinel(1) \o <<97>> \o CRLF }

\* The suffix {DIGITS+} directly before the CRLF at offset c: the literal
\* splice sentinel of the protocol.
SentinelBefore(b, c) ==
  /\ c >= 3
  /\ At(b, c - 1) = RBRACE
  /\ \E j \in 0..(c - 3) :
       /\ At(b, j) = LBRACE
       /\ \A i \in (j + 1)..(c - 2) : isdigit(At(b, i))

\* The bytes of a literal's payload in the legal lines.
PayloadBytes == {CR, LF, LBRACE, RBRACE, ZERO + 1}

\* Legal lines without a literal: a text free of CR and LF that does not end
\* in a sentinel, and the CRLF.
TextLines ==
  {t \o CRLF : t \in {x \in StringsUpTo(TextBytes, MaxText) :
                        ~SentinelBefore(x \o CRLF, Len(x))}}

\* Legal lines with one literal: text, {n} CRLF, n payload bytes of any value,
\* text, CRLF.
LiteralLines ==
  UNION {{pfx \o Sentinel(n) \o pl \o sfx \o CRLF :
            pfx \in {<<>>, <<97>>}, pl \in Strings(PayloadBytes, n),
            sfx \in {<<>>, <<41>>}} : n \in 0..MaxPayload}

LegalLines == TextLines \cup LiteralLines

\* Legal server output: one line, or one line and a short second one.
LegalOutputs ==
  {<<l>> : l \in LegalLines}
    \cup {<<l, m>> : l \in LegalLines,
                     m \in {<<97>> \o CRLF, Sentinel(1) \o <<CR>> \o <<41>> \o CRLF}}

RECURSIVE Concat(_)
Concat(ls) == IF ls = <<>> THEN <<>> ELSE Head(ls) \o Concat(Tail(ls))

\* Digit spans of sentinels around the range of the length type: 2^64, the
\* same behind a leading zero, twenty nines; and a span as long whose value
\* is 1.
OverflowSpans ==
  { <<1,8,4,4,6,7,4,4,0,7,3,7,0,9,5,5,1,6,1,6>>,
    <<0,1,8,4,4,6,7,4,4,0,7,3,7,0,9,5,5,1,6,1,6>>,
    <<9,9,9,9,9,9,9,9,9,9,9,9,9,9,9,9,9,9,9,9>> }
FittingSpans == { <<0,0,0,0,0,0,0,0,0,0,0,0,0,0,0,0,0,0,0,0,1>> }

DigitBytes(ds) == [i \in 1..Len(ds) |-> ZERO + ds[i]]

\* One line that ends in a sentinel with such a span, and what follows it.
BigStreams ==
  { <<97, LBRACE>> \o DigitBytes(ds) \o <<RBRACE>> \o CRLF \o t :
      ds \in OverflowSpans \cup FittingSpans, t \in {<<>>, <<98>> \o CRLF} }

\* The digits between the braces of the sentinel before the CRLF at c.
SpanBefore(b, c) ==
  LET p == DigitsBack(b, c - 1)
  IN  [i \in 1..(c - 1 - p) |-> At(b, p + i - 1) - ZERO]

(* ------------------------------------------------------------------ *)
(* The response parser (parser.c).                                    *)
(* A production takes the view b and the cursor cur and yields        *)
(* [ok, cur, val, exc, msg]: ok with the value and the cursor past    *)
(* it, or not ok with the exception that was set and the cursor where *)
(* the production left it.                                            *)
(* ------------------------------------------------------------------ *)
SP == 32
DQUOTE == 34
LPAREN == 40
RPAREN == 41
STAR == 42
PLUS == 43
COMMA == 44
COLON == 58
LBRACKET == 91
BACKSLASH == 92
RBRACKET == 93

\* Python values: [t, v], t the type and v what the object holds.
None == [t |-> "None", v |-> <<>>]
NULL == [t |-> "NULL", v |-> <<>>]
PyBytes(s) == [t |-> "bytes", v |-> s]
PyUnicode(s) == [t |-> "str", v |-> s]
PyLong(digits) == [t |-> "int", v |-> digits]
PyBool(x) == [t |-> "bool", v |-> IF x THEN <<1>> ELSE <<0>>]
PyList(items) == [t |-> "list", v |-> items]
PySet(items) == [t |-> "set", v |-> items]
PyDict(map) == [t |-> "dict", v |-> map]
PyStructSequence(type, items) == [t |-> type, v |-> items]

\* PyDict_SetItem: a later value for a key replaces the earlier one.
PyDict_SetItem(map, key, val) ==
  [k \in DOMAIN map \cup {key} |-> IF k = key THEN val ELSE map[k]]

Ok(cur, val) == [ok |-> TRUE, cur |-> cur, val |-> val, exc |-> "", msg |-> ""]
Raise(cur, exc, msg) ==
  [ok |-> FALSE, cur |-> cur, val |-> None, exc |-> exc, msg |-> msg]
parser_error(cur, msg) == Raise(cur, "ParseError", msg)
TRUNCATED_PARSE(cur) == parser_error(cur, "truncated parse")

\* The bytes of b from offset from up to offset to.
Slice(b, from, to) == SubSeq(b, from + 1, to)

EXPECTC(b, cur, c) ==
  IF cur >= Len(b) THEN TRUNCATED_PARSE(cur)
  ELSE IF At(b, cur) # c THEN parser_error(cur, "expected")
  ELSE Ok(cur + 1, None)

EXPECTS(b, cur, s) ==
  IF cur + Len(s) > Len(b) THEN TRUNCATED_PARSE(cur)
  ELSE IF Slice(b, cur, cur + Len(s)) # s THEN parser_error(cur, "expected")
  ELSE Ok(cur + Len(s), None)

atom_specials ==
  {LPAREN, RPAREN, LBRACE, SP} \cup (1..31) \cup {127, 37, STAR, DQUOTE, BACKSLASH, RBRACKET}
astring_reject == atom_specials \ {RBRACKET}
tag_reject == astring_reject \cup {PLUS}
resp_text_code_reject == {CR, LF, RBRACKET}
text_reject == {CR, LF}

\* The loop of bufcspn: the end of the span of CHARs outside reject from p.
RECURSIVE SpanEnd(_, _, _)
SpanEnd(b, p, reject) ==
  IF p < Len(b) /\ At(b, p) >= 1 /\ At(b, p) <= 127 /\ At(b, p) \notin reject
  THEN SpanEnd(b, p + 1, reject)
  ELSE p

\* A step of a production: K goes on from the result of the step, and the
\* result of a failed step is the result of the production (goto err).
Then(res, K(_)) == IF res.ok THEN K(res) ELSE res

\* K with the value v of a local variable.
With(v, K(_)) == K(v)

\* bufcspn: the span from cur; val holds its bytes.
bufcspn(b, cur, reject) ==
  IF cur >= Len(b) THEN TRUNCATED_PARSE(cur)
  ELSE With(SpanEnd(b, cur, reject), LAMBDA p : Ok(p, PyBytes(Slice(b, cur, p))))

parse_cspn(b, cur, reject) ==
  Then(bufcspn(b, cur, reject), LAMBDA s :
    IF s.val.v = <<>> THEN parser_error(s.cur, "empty span")
    ELSE Ok(s.cur, PyUnicode(s.val.v)))

\* The keywords of the token table, with the names of their identifiers.
Keywords ==
  { <<"OK", <<79, 75>>>>,
    <<"NO", <<78, 79>>>>,
    <<"BAD", <<66, 65, 68>>>>,
    <<"PREAUTH", <<80, 82, 69, 65, 85, 84, 72>>>>,
    <<"BYE", <<66, 89, 69>>>>,
    <<"CAPABILITY", <<67, 65, 80, 65, 66, 73, 76, 73, 84, 89>>>>,
    <<"ENABLED", <<69, 78, 65, 66, 76, 69, 68>>>>,
    <<"FLAGS", <<70, 76, 65, 71, 83>>>>,
    <<"LIST", <<76, 73, 83, 84>>>>,
    <<"LSUB", <<76, 83, 85, 66>>>>,
    <<"SEARCH", <<83, 69, 65, 82, 67, 72>>>>,
    <<"ESEARCH", <<69, 83, 69, 65, 82, 67, 72>>>>,
    <<"STATUS", <<83, 84, 65, 84, 85, 83>>>>,
    <<"EXISTS", <<69, 88, 73, 83, 84, 83>>>>,
    <<"EXPUNGE", <<69, 88, 80, 85, 78, 71, 69>>>>,
    <<"RECENT", <<82, 69, 67, 69, 78, 84>>>>,
    <<"FETCH", <<70, 69, 84, 67, 72>>>>,
    <<"BODY", <<66, 79, 68, 89>>>>,
    <<"BODYSTRUCTURE", <<66, 79, 68, 89, 83, 84, 82, 85, 67, 84, 85, 82, 69>>>>,
    <<"ENVELOPE", <<69, 78, 86, 69, 76, 79, 80, 69>>>>,
    <<"INTERNALDATE", <<73, 78, 84, 69, 82, 78, 65, 76, 68, 65, 84, 69>>>>,
    <<"MODSEQ", <<77, 79, 68, 83, 69, 81>>>>,
    <<"RFC822", <<82, 70, 67, 56, 50, 50>>>>,
    <<"RFC822.HEADER", <<82, 70, 67, 56, 50, 50, 46, 72, 69, 65, 68, 69, 82>>>>,
    <<"RFC822.TEXT", <<82, 70, 67, 56, 50, 50, 46, 84, 69, 88, 84>>>>,
    <<"RFC822.SIZE", <<82, 70, 67, 56, 50, 50, 46, 83, 73, 90, 69>>>>,
    <<"UID", <<85, 73, 68>>>>,
    <<"X-GM-MSGID", <<88, 45, 71, 77, 45, 77, 83, 71, 73, 68>>>>,
    <<"MIN", <<77, 73, 78>>>>,
    <<"MAX", <<77, 65, 88>>>>,
    <<"ALL", <<65, 76, 76>>>>,
    <<"COUNT", <<67, 79, 85, 78, 84>>>>,
    <<"MESSAGES", <<77, 69, 83, 83, 65, 71, 69, 83>>>>,
    <<"UIDNEXT", <<85, 73, 68, 78, 69, 88, 84>>>>,
    <<"UIDVALIDITY", <<85, 73, 68, 86, 65, 76, 73, 68, 73, 84, 89>>>>,
    <<"UNSEEN", <<85, 78, 83, 69, 69, 78>>>>,
    <<"ALERT", <<65, 76, 69, 82, 84>>>>,
    <<"PARSE", <<80, 65, 82, 83, 69>>>>,
    <<"READ-ONLY", <<82, 69, 65, 68, 45, 79, 78, 76, 89>>>>,
    <<"READ-WRITE", <<82, 69, 65, 68, 45, 87, 82, 73, 84, 69>>>>,
    <<"TRYCREATE", <<84, 82, 89, 67, 82, 69, 65, 84, 69>>>>,
    <<"HIGHESTMODSEQ", <<72, 73, 71, 72, 69, 83, 84, 77, 79, 68, 83, 69, 81>>>> }

toupper(c) == IF c >= 97 /\ c <= 122 THEN c - 32 ELSE c
tolower(c) == IF c >= 65 /\ c <= 90 THEN c + 32 ELSE c

\* imap4_token: the identifier of the keyword the slice spells, in either
\* case; "" (the 0 of the source) when it spells none.
imap4_token(str) ==
  With({k \in Keywords : k[2] = [i \in 1..Len(str) |-> toupper(str[i])]}, LAMBDA hits :
    IF hits = {} THEN "" ELSE (CHOOSE k \in hits : TRUE)[1])

IsTokenChar(c) ==
  \/ c >= 65 /\ c <= 90
  \/ c >= 97 /\ c <= 122
  \/ c >= 48 /\ c <= 57
  \/ c = 46
  \/ c = 45

RECURSIVE TokenEnd(_, _)
TokenEnd(b, p) == IF p < Len(b) /\ IsTokenChar(At(b, p)) THEN TokenEnd(b, p + 1) ELSE p

\* parse_token: val is the identifier; the cursor moves only past a keyword.
parse_token(b, cur) ==
  IF cur >= Len(b) THEN TRUNCATED_PARSE(cur)
  ELSE With(TokenEnd(b, cur), LAMBDA p :
         With(imap4_token(Slice(b, cur, p)), LAMBDA res :
           Ok(IF res # "" THEN p ELSE cur, res)))

Token_FromLong(token) == [t |-> "Token", v |-> token]

(* unsigned long long values are digit strings without leading zeros. *)
ULLONG_MAX_DIGITS == <<1,8,4,4,6,7,4,4,0,7,3,7,0,9,5,5,1,6,1,5>>
ULLONG_MAX_DIV_10 == SubSeq(ULLONG_MAX_DIGITS, 1, 19)
ULLONG_MAX_MOD_10 == ULLONG_MAX_DIGITS[20]
PY_SSIZE_T_MAX_DIGITS == <<9,2,2,3,3,7,2,0,3,6,8,5,4,7,7,5,8,0,7>>

\* a > b for values
UllGreater(a, b) ==
  \/ Len(a) > Len(b)
  \/ Len(a) = Len(b) /\ DigitsGreater(a, b)

\* A digit loop that tests only res > ULLONG_MAX / 10 before it appends.
RECURSIVE NumberLoopNoLastDigitTest(_, _, _)
NumberLoopNoLastDigitTest(b, p, res) ==
  IF p < Len(b) /\ isdigit(At(b, p))
  THEN IF UllGreater(res, ULLONG_MAX_DIV_10)
       THEN [p |-> p, res |-> res, overflowed |-> TRUE]
       ELSE NumberLoopNoLastDigitTest(b, p + 1, StripZeros(Append(res, At(b, p) - ZERO)))
  ELSE [p |-> p, res |-> res, overflowed |-> FALSE]

\* The digit loop of _parse_number from p with res accumulated.
RECURSIVE NumberLoop(_, _, _)
NumberLoop(b, p, res) ==
  IF p < Len(b) /\ isdigit(At(b, p))
  THEN With(At(b, p) - ZERO, LAMBDA digit :
         IF \/ UllGreater(res, ULLONG_MAX_DIV_10)
            \/ res = ULLONG_MAX_DIV_10 /\ digit > ULLONG_MAX_MOD_10
         THEN [p |-> p, res |-> res, overflowed |-> TRUE]
         ELSE NumberLoop(b, p + 1, StripZeros(Append(res, digit))))
  ELSE [p |-> p, res |-> res, overflowed |-> FALSE]

\* _parse_number: val is the value read.
_parse_number(b, cur) ==
  IF cur >= Len(b) THEN TRUNCATED_PARSE(cur)
  ELSE With(NumberLoop(b, cur, <<>>), LAMBDA n :
         IF n.overflowed THEN parser_error(cur, "number overflowed")
         ELSE IF n.p = cur THEN parser_error(cur, "expected number")
         ELSE Ok(n.p, n.res))

parse_number(b, cur) ==
  Then(_parse_number(b, cur), LAMBDA n : Ok(n.cur, PyLong(n.val)))

\* The loop of the quoted branch of parse_string from p, out the bytes copied.
RECURSIVE QuotedLoop(_, _, _)
QuotedLoop(b, p, out) ==
  IF p < Len(b) /\ At(b, p) # DQUOTE
  THEN IF At(b, p) = BACKSLASH
       THEN IF p + 1 = Len(b) THEN [p |-> p + 1, out |-> out, msg |-> "truncated parse"]
            ELSE IF At(b, p + 1) # DQUOTE /\ At(b, p + 1) # BACKSLASH
            THEN [p |-> p + 1, out |-> out, msg |-> "invalid quoted character"]
            ELSE QuotedLoop(b, p + 2, Append(out, At(b, p + 1)))
       ELSE QuotedLoop(b, p + 1, Append(out, At(b, p)))
  ELSE [p |-> p, out |-> out, msg |-> ""]

\* The literal branch of parse_string, cur past the '{'.
ParseLiteral(b, cur) ==
  Then(_parse_number(b, cur), LAMBDA number :
    IF UllGreater(number.val, PY_SSIZE_T_MAX_DIGITS)
    THEN parser_error(number.cur, "literal length overflowed")
    ELSE Then(EXPECTS(b, number.cur, <<RBRACE, CR, LF>>), LAMBDA e :
           IF Len(number.val) > 9 \/ Len(b) - e.cur < DigitsValue(number.val)
           THEN TRUNCATED_PARSE(e.cur)
           ELSE With(DigitsValue(number.val), LAMBDA length :
                  Ok(e.cur + length, PyBytes(Slice(b, e.cur, e.cur + length))))))

\* parse_string: a quoted string or a literal, as bytes.
parse_string(b, cur) ==
  IF cur >= Len(b) THEN TRUNCATED_PARSE(cur)
  ELSE IF At(b, cur) = DQUOTE
  THEN With(QuotedLoop(b, cur + 1, <<>>), LAMBDA q :
         IF q.msg # "" THEN parser_error(cur + 1, q.msg)
         ELSE IF q.p = Len(b) THEN TRUNCATED_PARSE(cur + 1)
         ELSE Ok(q.p + 1, PyBytes(q.out)))
  ELSE IF At(b, cur) = LBRACE THEN ParseLiteral(b, cur + 1)
  ELSE parser_error(cur + 1, "invalid string")

\* parse_string_ascii: the string decoded as ASCII.
parse_string_ascii(b, cur) ==
  Then(parse_string(b, cur), LAMBDA s :
    IF \E i \in 1..Len(s.val.v) : s.val.v[i] > 127
    THEN Raise(s.cur, "UnicodeDecodeError", "")
    ELSE Ok(s.cur, PyUnicode(s.val.v)))

parse_astring(b, cur) ==
  IF cur >= Len(b) THEN TRUNCATED_PARSE(cur)
  ELSE IF At(b, cur) = DQUOTE \/ At(b, cur) = LBRACE THEN parse_string(b, cur)
  ELSE With(bufcspn(b, cur, astring_reject), LAMBDA atom :
         IF atom.val.v = <<>> THEN parser_error(atom.cur, "empty astring")
         ELSE atom)

parse_atom(b, cur) == parse_cspn(b, cur, atom_specials)

INBOX == <<73, 78, 66, 79, 88>>

\* A comparison that tells the cases apart.
memcmp_INBOX(buffer) == \A i \in 1..5 : buffer[i] = INBOX[i]

\* strncasecmp(buffer, "INBOX", 5) == 0 for a buffer of 5 bytes
strncasecmp_INBOX(buffer) ==
  \A i \in 1..5 : tolower(buffer[i]) = tolower(INBOX[i])

parse_mailbox(b, cur) ==
  Then(parse_astring(b, cur), LAMBDA mailbox :
    IF Len(mailbox.val.v) = 5 /\ strncasecmp_INBOX(mailbox.val.v)
    THEN Ok(mailbox.cur, PyBytes(INBOX))
    ELSE mailbox)

\* The resp-text-code of parse_resp_text, cur past the '[': val is
\* <<code, code_data>> and the cursor is past the ']'.
RespTextCode(b, cur) ==
  Then(bufcspn(b, cur, atom_specials), LAMBDA atom :
    IF atom.val.v = <<>> THEN parser_error(atom.cur, "empty atom")
    ELSE Then(With(imap4_token(atom.val.v), LAMBDA token :
                IF token \in {"ALERT", "PARSE", "READ-ONLY", "READ-WRITE", "TRYCREATE"}
                THEN Ok(atom.cur, <<Token_FromLong(token), None>>)
                ELSE IF token \in {"HIGHESTMODSEQ", "UIDNEXT", "UIDVALIDITY", "UNSEEN"}
                THEN Then(EXPECTC(b, atom.cur, SP), LAMBDA sp :
                       Then(parse_number(b, sp.cur), LAMBDA number :
                         Ok(number.cur, <<Token_FromLong(token), number.val>>)))
                ELSE IF atom.cur >= Len(b) THEN TRUNCATED_PARSE(atom.cur)
                ELSE IF At(b, atom.cur) = SP
                THEN Then(parse_cspn(b, atom.cur + 1, resp_text_code_reject), LAMBDA data :
                       Ok(data.cur, <<PyUnicode(atom.val.v), data.val>>))
                ELSE Ok(atom.cur, <<PyUnicode(atom.val.v), None>>)),
              LAMBDA code :
                Then(EXPECTC(b, code.cur, RBRACKET), LAMBDA close :
                  Ok(close.cur, code.val))))

\* A resp-text that has to have SP and text after its code.
parse_resp_textStrict(b, cur) ==
  IF cur >= Len(b) THEN TRUNCATED_PARSE(cur)
  ELSE IF At(b, cur) = LBRACKET
  THEN Then(RespTextCode(b, cur + 1), LAMBDA code :
         IF code.cur >= Len(b) THEN TRUNCATED_PARSE(code.cur)
         ELSE IF At(b, code.cur) = SP
         THEN Then(parse_cspn(b, code.cur + 1, text_reject), LAMBDA text :
                Ok(text.cur, PyStructSequence("ResponseText",
                               <<text.val, code.val[1], code.val[2]>>)))
         ELSE parser_error(code.cur, "expected"))
  ELSE Then(parse_cspn(b, cur, text_reject), LAMBDA text :
         Ok(text.cur, PyStructSequence("ResponseText", <<text.val, None, None>>)))

\* parse_resp_text: ResponseText(text, code, code_data).
parse_resp_text(b, cur) ==
  IF cur >= Len(b) THEN TRUNCATED_PARSE(cur)
  ELSE IF At(b, cur) = LBRACKET
  THEN Then(RespTextCode(b, cur + 1), LAMBDA code :
         IF code.cur >= Len(b) THEN TRUNCATED_PARSE(code.cur)
         ELSE IF At(b, code.cur) = SP
         THEN Then(parse_cspn(b, code.cur + 1, text_reject), LAMBDA text :
                Ok(text.cur, PyStructSequence("ResponseText",
                               <<text.val, code.val[1], code.val[2]>>)))
         ELSE Ok(code.cur, PyStructSequence("ResponseText",
                             <<None, code.val[1], code.val[2]>>)))
  ELSE Then(parse_cspn(b, cur, text_reject), LAMBDA text :
         Ok(text.cur, PyStructSequence("ResponseText", <<text.val, None, None>>)))

\* parse_continue_req: ContinueReq(text).
parse_continue_req(b, cur) ==
  Then(EXPECTS(b, cur, <<PLUS, SP>>), LAMBDA plus :
    Then(parse_resp_text(b, plus.cur), LAMBDA text :
      Then(EXPECTS(b, text.cur, CRLF), LAMBDA crlf :
        Ok(crlf.cur, PyStructSequence("ContinueReq", <<text.val>>)))))

\* A tagged response that takes every condition an untagged one may have.
parse_response_taggedAnyCond(b, cur) ==
  Then(parse_cspn(b, cur, tag_reject), LAMBDA tag :
    Then(EXPECTC(b, tag.cur, SP), LAMBDA sp1 :
      Then(parse_token(b, sp1.cur), LAMBDA token :
        IF token.val \notin {"OK", "NO", "BAD", "PREAUTH", "BYE"}
        THEN parser_error(token.cur, "unknown tagged response")
        ELSE Then(EXPECTC(b, token.cur, SP), LAMBDA sp2 :
               Then(parse_resp_text(b, sp2.cur), LAMBDA text :
                 Then(EXPECTS(b, text.cur, CRLF), LAMBDA crlf :
                   Ok(crlf.cur, PyStructSequence("TaggedResponse",
                                  <<tag.val, Token_FromLong(token.val), text.val>>))))))))

\* parse_response_tagged: TaggedResponse(tag, type, text).
parse_response_tagged(b, cur) ==
  Then(parse_cspn(b, cur, tag_reject), LAMBDA tag :
    Then(EXPECTC(b, tag.cur, SP), LAMBDA sp1 :
      Then(parse_token(b, sp1.cur), LAMBDA token :
        IF token.val \notin {"OK", "NO", "BAD"}
        THEN parser_error(token.cur, "unknown tagged response")
        ELSE Then(EXPECTC(b, token.cur, SP), LAMBDA sp2 :
               Then(parse_resp_text(b, sp2.cur), LAMBDA text :
                 Then(EXPECTS(b, text.cur, CRLF), LAMBDA crlf :
                   Ok(crlf.cur, PyStructSequence("TaggedResponse",
                                  <<tag.val, Token_FromLong(token.val), text.val>>))))))))

\* parse_sequence_set from cur, list the items read so far.
RECURSIVE SequenceSetLoop(_, _, _)
SequenceSetLoop(b, cur, list) ==
  Then(_parse_number(b, cur), LAMBDA number1 :
    IF number1.cur >= Len(b) THEN TRUNCATED_PARSE(number1.cur)
    ELSE Then(IF At(b, number1.cur) = COLON
              THEN Then(_parse_number(b, number1.cur + 1), LAMBDA number2 :
                     Ok(number2.cur, [t |-> "tuple",
                                      v |-> <<PyLong(number1.val), PyLong(number2.val)>>]))
              ELSE Ok(number1.cur, PyLong(number1.val)),
           LAMBDA item :
             IF item.cur >= Len(b) THEN TRUNCATED_PARSE(item.cur)
             ELSE IF At(b, item.cur) # COMMA
             THEN Ok(item.cur, PyList(Append(list, item.val)))
             ELSE SequenceSetLoop(b, item.cur + 1, Append(list, item.val))))

parse_sequence_set(b, cur) == SequenceSetLoop(b, cur, <<>>)

\* The while loop of parse_esearch_response: val is [uid, returned].
RECURSIVE EsearchLoop(_, _, _, _)
EsearchLoop(b, cur, uid, returned) ==
  IF cur >= Len(b) THEN TRUNCATED_PARSE(cur)
  ELSE IF At(b, cur) # SP THEN Ok(cur, [uid |-> uid, returned |-> returned])
  ELSE Then(parse_token(b, cur + 1), LAMBDA token :
         IF token.val = "UID" THEN EsearchLoop(b, token.cur, TRUE, returned)
         ELSE IF token.val \in {"COUNT", "MAX", "MIN", "ALL"}
         THEN Then(EXPECTC(b, token.cur, SP), LAMBDA sp :
                Then(IF token.val = "ALL" THEN parse_sequence_set(b, sp.cur)
                     ELSE parse_number(b, sp.cur),
                  LAMBDA value :
                    EsearchLoop(b, value.cur, uid,
                                PyDict_SetItem(returned, token.val, value.val))))
         ELSE parser_error(token.cur, "unknown ESEARCH return"))

\* parse_esearch_response, cur past ESEARCH: Esearch(tag, uid, returned). The
\* result of parsing the correlator's string is not tested: after a failure
\* there parsing goes on with the exception set and the tag NULL.
parse_esearch_response(b, cur) ==
  IF cur >= Len(b) THEN TRUNCATED_PARSE(cur)
  ELSE IF At(b, cur) # SP
  THEN Ok(cur, PyStructSequence("Esearch", <<None, PyBool(FALSE), PyDict(<<>>)>>))
  ELSE IF cur + 1 >= Len(b) THEN TRUNCATED_PARSE(cur + 1)
  ELSE Then(IF At(b, cur + 1) = LPAREN
            THEN Then(EXPECTS(b, cur + 1, <<LPAREN, 84, 65, 71, SP>>), LAMBDA open :
                   With(parse_string_ascii(b, open.cur), LAMBDA tag :
                     Then(EXPECTC(b, tag.cur, RPAREN), LAMBDA close :
                       Ok(close.cur, IF tag.ok THEN tag.val ELSE NULL))))
            ELSE Ok(cur + 1, None),
         LAMBDA tag :
           Then(EsearchLoop(b, tag.cur, FALSE, <<>>), LAMBDA loop :
             Ok(loop.cur, PyStructSequence("Esearch",
                            <<tag.val, PyBool(loop.val.uid), PyDict(loop.val.returned)>>))))

\* The flag loop of parse_mbx_list_flags, cur at a flag's backslash.
RECURSIVE MbxListFlagsLoop(_, _, _)
MbxListFlagsLoop(b, cur, flags) ==
  Then(EXPECTC(b, cur, BACKSLASH), LAMBDA bs :
    Then(bufcspn(b, bs.cur, atom_specials), LAMBDA atom :
      IF atom.val.v = <<>> THEN parser_error(atom.cur, "empty atom")
      ELSE IF atom.cur >= Len(b) THEN TRUNCATED_PARSE(atom.cur)
      ELSE With(flags \cup {PyUnicode(<<BACKSLASH>> \o atom.val.v)}, LAMBDA added :
             IF At(b, atom.cur) # SP THEN Ok(atom.cur, added)
             ELSE MbxListFlagsLoop(b, atom.cur + 1, added))))

parse_mbx_list_flags(b, cur) ==
  Then(EXPECTC(b, cur, LPAREN), LAMBDA open :
    IF open.cur >= Len(b) THEN TRUNCATED_PARSE(open.cur)
    ELSE IF At(b, open.cur) = RPAREN THEN Ok(open.cur + 1, PySet({}))
    ELSE Then(MbxListFlagsLoop(b, open.cur, {}), LAMBDA loop :
           Then(EXPECTC(b, loop.cur, RPAREN), LAMBDA close :
             Ok(close.cur, PySet(loop.val)))))

\* parse_mailbox_list: List(attributes, delimiter, mailbox).
parse_mailbox_list(b, cur) ==
  Then(parse_mbx_list_flags(b, cur), LAMBDA flags :
    Then(EXPECTC(b, flags.cur, SP), LAMBDA sp :
      Then(IF sp.cur >= Len(b) THEN TRUNCATED_PARSE(sp.cur)
           ELSE IF At(b, sp.cur) = DQUOTE
           THEN IF sp.cur + 1 >= Len(b) THEN TRUNCATED_PARSE(sp.cur + 1)
                ELSE Then(EXPECTS(b, sp.cur + 2, <<DQUOTE, SP>>), LAMBDA endq :
                       Ok(endq.cur, [t |-> "ord", v |-> <<At(b, sp.cur + 1)>>]))
           ELSE Then(EXPECTS(b, sp.cur, <<78, 73, 76, SP>>), LAMBDA nil :
                  Ok(nil.cur, None)),
        LAMBDA delimiter :
          Then(parse_mailbox(b, delimiter.cur), LAMBDA mailbox :
            Ok(mailbox.cur, PyStructSequence("List",
                              <<flags.val, delimiter.val, mailbox.val>>))))))

\* The capability loop of parse_response_data.
RECURSIVE CapabilityLoop(_, _, _)
CapabilityLoop(b, cur, data) ==
  IF cur >= Len(b) THEN TRUNCATED_PARSE(cur)
  ELSE IF At(b, cur) # SP THEN Ok(cur, PySet(data))
  ELSE Then(parse_atom(b, cur + 1), LAMBDA cap :
         CapabilityLoop(b, cap.cur, data \cup {cap.val}))

\* The productions that are left out of the model: FLAGS, SEARCH and STATUS
\* data; FLAGS, ENVELOPE and INTERNALDATE attributes; multipart bodies,
\* message/rfc822 bodies and the extension data of a body.
NotModelled(cur) == Raise(cur, "not modelled", "")

LANGLE == 60
RANGLE == 62
NIL == <<78, 73, 76>>
PyTuple(items) == [t |-> "tuple", v |-> items]

section_spec_reject == {CR, LF, RBRACKET}

\* parse_nstring: NIL as None, or a string as bytes.
parse_nstring(b, cur) ==
  IF cur >= Len(b) THEN TRUNCATED_PARSE(cur)
  ELSE IF At(b, cur) = NIL[1]
  THEN Then(EXPECTS(b, cur, NIL), LAMBDA nil : Ok(nil.cur, None))
  ELSE parse_string(b, cur)

\* parse_nstring_ascii: None, or the string decoded as ASCII.
parse_nstring_ascii(b, cur) ==
  Then(parse_nstring(b, cur), LAMBDA bytes :
    IF bytes.val = None THEN bytes
    ELSE IF \E i \in 1..Len(bytes.val.v) : bytes.val.v[i] > 127
    THEN Raise(bytes.cur, "UnicodeDecodeError", "")
    ELSE Ok(bytes.cur, PyUnicode(bytes.val.v)))

\* parse_string_ascii_lower: bytes.lower() of the string, decoded as ASCII.
parse_string_ascii_lower(b, cur) ==
  Then(parse_string(b, cur), LAMBDA bytes :
    IF \E i \in 1..Len(bytes.val.v) : bytes.val.v[i] > 127
    THEN Raise(bytes.cur, "UnicodeDecodeError", "")
    ELSE Ok(bytes.cur, PyUnicode([i \in 1..Len(bytes.val.v) |-> tolower(bytes.val.v[i])])))

\* parse_bodysection, cur at the '[' after BODY: val is dict with the tuple
\* (content, origin) set under the text between the brackets.
parse_bodysection(b, cur, dict) ==
  Then(EXPECTC(b, cur, LBRACKET), LAMBDA open :
    Then(bufcspn(b, open.cur, section_spec_reject), LAMBDA section :
      Then(EXPECTC(b, section.cur, RBRACKET), LAMBDA close :
        Then(IF close.cur >= Len(b) THEN TRUNCATED_PARSE(close.cur)
             ELSE IF At(b, close.cur) = LANGLE
             THEN Then(parse_number(b, close.cur + 1), LAMBDA origin :
                    Then(EXPECTC(b, origin.cur, RANGLE), LAMBDA gt :
                      Ok(gt.cur, origin.val)))
             ELSE Ok(close.cur, None),
          LAMBDA origin :
            Then(EXPECTC(b, origin.cur, SP), LAMBDA sp :
              Then(parse_nstring(b, sp.cur), LAMBDA content :
                Ok(content.cur,
                   PyDict(PyDict_SetItem(dict.v, PyUnicode(section.val.v),
                                         PyTuple(<<content.val, origin.val>>))))))))))

\* The loop of parse_body_fld_param, cur at a key.
RECURSIVE BodyFldParamLoop(_, _, _)
BodyFldParamLoop(b, cur, params) ==
  Then(parse_string_ascii_lower(b, cur), LAMBDA key :
    Then(EXPECTC(b, key.cur, SP), LAMBDA sp :
      Then(parse_string_ascii(b, sp.cur), LAMBDA value :
        With(PyDict_SetItem(params, key.val, value.val), LAMBDA set :
          IF value.cur >= Len(b) THEN TRUNCATED_PARSE(value.cur)
          ELSE IF At(b, value.cur) = RPAREN THEN Ok(value.cur + 1, PyDict(set))
          ELSE Then(EXPECTC(b, value.cur, SP), LAMBDA next :
                 BodyFldParamLoop(b, next.cur, set))))))

\* parse_body_fld_param: the dict of the parameters, empty for NIL.
parse_body_fld_param(b, cur) ==
  IF cur >= Len(b) THEN TRUNCATED_PARSE(cur)
  ELSE IF At(b, cur) # LPAREN
  THEN Then(EXPECTS(b, cur, NIL), LAMBDA nil : Ok(nil.cur, PyDict(<<>>)))
  ELSE BodyFldParamLoop(b, cur + 1, <<>>)

\* parse_body_fields: val is items 2 to 6 of the body.
parse_body_fields(b, cur) ==
  Then(parse_body_fld_param(b, cur), LAMBDA param :
    Then(EXPECTC(b, param.cur, SP), LAMBDA sp1 :
      Then(parse_nstring_ascii(b, sp1.cur), LAMBDA id :
        Then(EXPECTC(b, id.cur, SP), LAMBDA sp2 :
          Then(parse_nstring_ascii(b, sp2.cur), LAMBDA desc :
            Then(EXPECTC(b, desc.cur, SP), LAMBDA sp3 :
              Then(parse_string_ascii_lower(b, sp3.cur), LAMBDA enc :
                Then(EXPECTC(b, enc.cur, SP), LAMBDA sp4 :
                  Then(parse_number(b, sp4.cur), LAMBDA octets :
                    Ok(octets.cur, <<param.val, id.val, desc.val, enc.val,
                                     octets.val>>))))))))))

\* parse_body_type_1part: TextBody or BasicBody, its extension items None,
\* None, None, None and an empty list.
parse_body_type_1part(b, cur) ==
  Then(parse_string_ascii_lower(b, cur), LAMBDA media_type :
    Then(EXPECTC(b, media_type.cur, SP), LAMBDA sp1 :
      Then(parse_string_ascii_lower(b, sp1.cur), LAMBDA media_subtype :
        Then(EXPECTC(b, media_subtype.cur, SP), LAMBDA sp2 :
          Then(IF media_type.val.v = <<116, 101, 120, 116>>
               THEN Then(parse_body_fields(b, sp2.cur), LAMBDA fields :
                      Then(EXPECTC(b, fields.cur, SP), LAMBDA sp3 :
                        Then(parse_number(b, sp3.cur), LAMBDA lines :
                          Ok(lines.cur, [type |-> "TextBody",
                                         items |-> Append(fields.val, lines.val)]))))
               ELSE IF /\ media_type.val.v = <<109, 101, 115, 115, 97, 103, 101>>
                       /\ media_subtype.val.v = <<114, 102, 99, 56, 50, 50>>
               THEN NotModelled(sp2.cur)
               ELSE Then(parse_body_fields(b, sp2.cur), LAMBDA fields :
                      Ok(fields.cur, [type |-> "BasicBody", items |-> fields.val])),
            LAMBDA body :
              IF body.cur >= Len(b) THEN TRUNCATED_PARSE(body.cur)
              ELSE IF At(b, body.cur) = SP THEN NotModelled(body.cur)
              ELSE Ok(body.cur,
                      PyStructSequence(body.val.type,
                        <<media_type.val, media_subtype.val>> \o body.val.items
                          \o <<None, None, None, None, PyList(<<>>)>>)))))))

\* parse_body: the body between its parentheses.
parse_body(b, cur) ==
  Then(EXPECTC(b, cur, LPAREN), LAMBDA open :
    IF open.cur >= Len(b) THEN TRUNCATED_PARSE(open.cur)
    ELSE Then(IF At(b, open.cur) = LPAREN THEN NotModelled(open.cur)
              ELSE parse_body_type_1part(b, open.cur),
           LAMBDA body :
             Then(EXPECTC(b, body.cur, RPAREN), LAMBDA close :
               Ok(close.cur, body.val))))

\* Body sections set under the key of the attribute itself.
SetBodySectionsUnderBody(data, bodysections) ==
  PyDict_SetItem(data, "BODY", bodysections)

\* PyDict_SetItemToken(data, IMAP4_BODYSECTIONS, bodysections): data holds
\* the dict of the sections itself, so it shows every section set in it.
SetBodySections(data, bodysections) ==
  PyDict_SetItem(data, "BODYSECTIONS", bodysections)

\* The switch of parse_msg_att for an attribute other than a body section,
\* cur past its token: val is att_data. FLAGS, ENVELOPE and INTERNALDATE are
\* left out of the model.
MsgAttData(b, cur, token) ==
  IF token \in {"FLAGS", "ENVELOPE", "INTERNALDATE"}
  THEN Then(EXPECTC(b, cur, SP), LAMBDA sp : NotModelled(sp.cur))
  ELSE IF token \in {"BODY", "BODYSTRUCTURE"}
  THEN Then(EXPECTC(b, cur, SP), LAMBDA sp : parse_body(b, sp.cur))
  ELSE IF token = "MODSEQ"
  THEN Then(EXPECTS(b, cur, <<SP, LPAREN>>), LAMBDA open :
         Then(_parse_number(b, open.cur), LAMBDA number :
           Then(EXPECTC(b, number.cur, RPAREN), LAMBDA close :
             Ok(close.cur, PyLong(number.val)))))
  ELSE IF token \in {"RFC822", "RFC822.HEADER", "RFC822.TEXT"}
  THEN Then(EXPECTC(b, cur, SP), LAMBDA sp : parse_nstring(b, sp.cur))
  ELSE IF token \in {"RFC822.SIZE", "UID", "X-GM-MSGID"}
  THEN Then(EXPECTC(b, cur, SP), LAMBDA sp : parse_number(b, sp.cur))
  ELSE parser_error(cur, "unknown FETCH item")

\* The while loop of parse_msg_att, cur at an attribute's token; bodysections
\* is NULL until the first body section.
RECURSIVE MsgAttLoop(_, _, _, _)
MsgAttLoop(b, cur, data, bodysections) ==
  Then(parse_token(b, cur), LAMBDA token :
    Then(IF token.val = "BODY" /\ token.cur >= Len(b) THEN TRUNCATED_PARSE(token.cur)
         ELSE IF token.val = "BODY" /\ At(b, token.cur) = LBRACKET
         THEN Then(parse_bodysection(b, token.cur,
                     IF bodysections = NULL THEN PyDict(<<>>) ELSE bodysections),
                LAMBDA section :
                  Ok(section.cur, [data |-> SetBodySections(data, section.val),
                                   bodysections |-> section.val]))
         ELSE Then(MsgAttData(b, token.cur, token.val), LAMBDA att_data :
                Ok(att_data.cur, [data |-> PyDict_SetItem(data, token.val, att_data.val),
                                  bodysections |-> bodysections])),
      LAMBDA item :
        IF item.cur >= Len(b) THEN TRUNCATED_PARSE(item.cur)
        ELSE IF At(b, item.cur) # SP THEN Ok(item.cur, PyDict(item.val.data))
        ELSE MsgAttLoop(b, item.cur + 1, item.val.data, item.val.bodysections)))

\* parse_msg_att: the dict of the attributes.
parse_msg_att(b, cur) ==
  Then(EXPECTC(b, cur, LPAREN), LAMBDA open :
    Then(MsgAttLoop(b, open.cur, <<>>, NULL), LAMBDA loop :
      Then(EXPECTC(b, loop.cur, RPAREN), LAMBDA close :
        Ok(close.cur, loop.val))))

\* parse_message_data: val is <<type, data>>, data a Fetch(msg, items) or
\* the number.
parse_message_data(b, cur) ==
  Then(_parse_number(b, cur), LAMBDA number :
    Then(EXPECTC(b, number.cur, SP), LAMBDA sp :
      Then(parse_token(b, sp.cur), LAMBDA token :
        IF token.val = "" THEN Raise(token.cur, "Token(0)", "")
        ELSE IF token.val = "FETCH"
        THEN Then(EXPECTC(b, token.cur, SP), LAMBDA sp2 :
               Then(parse_msg_att(b, sp2.cur), LAMBDA msg_att :
                 Ok(msg_att.cur, <<Token_FromLong(token.val),
                                   PyStructSequence("Fetch",
                                     <<PyLong(number.val), msg_att.val>>)>>)))
        ELSE IF token.val \in {"EXISTS", "EXPUNGE", "RECENT"}
        THEN Ok(token.cur, <<Token_FromLong(token.val), PyLong(number.val)>>)
        ELSE parser_error(token.cur, "unknown message data"))))

\* parse_response_data: UntaggedResponse(type, data). A slice that is no
\* keyword has its identifier 0 turned into a Token by the imap4 package
\* before the switch rejects it.
parse_response_data(b, cur) ==
  Then(EXPECTS(b, cur, <<STAR, SP>>), LAMBDA star :
    IF star.cur >= Len(b) THEN TRUNCATED_PARSE(star.cur)
    ELSE Then(IF isdigit(At(b, star.cur)) THEN parse_message_data(b, star.cur)
              ELSE Then(parse_token(b, star.cur), LAMBDA token :
                     Then(IF token.val \in {"OK", "NO", "BAD", "PREAUTH", "BYE"}
                          THEN Then(EXPECTC(b, token.cur, SP), LAMBDA sp :
                                 parse_resp_text(b, sp.cur))
                          ELSE IF token.val \in {"CAPABILITY", "ENABLED"}
                          THEN CapabilityLoop(b, token.cur, {})
                          ELSE IF token.val = "ESEARCH"
                          THEN parse_esearch_response(b, token.cur)
                          ELSE IF token.val \in {"LIST", "LSUB"}
                          THEN Then(EXPECTC(b, token.cur, SP), LAMBDA sp :
                                 parse_mailbox_list(b, sp.cur))
                          ELSE IF token.val \in {"FLAGS", "SEARCH", "STATUS"}
                          THEN NotModelled(token.cur)
                          ELSE IF token.val = "" THEN Raise(token.cur, "Token(0)", "")
                          ELSE parser_error(token.cur, "unknown untagged response"),
                       LAMBDA data :
                         Ok(data.cur, <<Token_FromLong(token.val), data.val>>))),
           LAMBDA response :
             Then(EXPECTS(b, response.cur, CRLF), LAMBDA crlf :
               Ok(crlf.cur, PyStructSequence("UntaggedResponse", response.val)))))

\* parse_response: ContinueReq, TaggedResponse or UntaggedResponse.
parse_response(b, cur) ==
  IF cur >= Len(b) THEN TRUNCATED_PARSE(cur)
  ELSE IF At(b, cur) = STAR THEN parse_response_data(b, cur)
  ELSE IF At(b, cur) = PLUS THEN parse_continue_req(b, cur)
  ELSE parse_response_tagged(b, cur)

\* Whether a value was returned with an exception still set.
ErrorSet(val) ==
  /\ val.t = "UntaggedResponse"
  /\ val.v[2].t = "Esearch"
  /\ val.v[2].v[1] = NULL

\* An entry point that returns None for an empty view.
EntryPointEmptyIsNone(b, res, msg) ==
  IF Len(b) = 0 THEN Ok(0, None)
  ELSE IF ~res.ok THEN res
  ELSE IF res.cur # Len(b) THEN parser_error(res.cur, msg)
  ELSE res

\* An entry point that returns the value whatever follows it.
EntryPointIgnoresTrailing(b, res, msg) ==
  IF Len(b) = 0 THEN parser_error(0, "nothing to parse")
  ELSE res

\* What the three entry points do with the result res of their production:
\* no parse of an empty view, no value when bytes are left over. A value may
\* be returned with an exception still set; what becomes of it is up to the
\* interpreter.
EntryPoint(b, res, msg) ==
  IF Len(b) = 0 THEN parser_error(0, "nothing to parse")
  ELSE IF ~res.ok THEN res
  ELSE IF res.cur # Len(b) THEN parser_error(res.cur, msg)
  ELSE IF ErrorSet(res.val) THEN [res EXCEPT !.exc = "exception set"]
  ELSE res

parse_response_line(b) ==
  EntryPoint(b, parse_response(b, 0), "trailing characters after response")
parse_imap_string(b) ==
  EntryPoint(b, parse_string(b, 0), "trailing characters after string")
parse_imap_astring(b) ==
  EntryPoint(b, parse_astring(b, 0), "trailing characters after astring")

(* ------------------------------------------------------------------ *)
(* The views handed to the parser.                                    *)
(* ------------------------------------------------------------------ *)
MaxQuoted == 3
MaxAtom == 2
MaxDigits == 2
MaxReturns == 2

\* What a quoted string is made of: a plain byte, the two escapes, an escape
\* of another byte, a bare CR and a bare LF.
PlainUnits == {<<97>>, <<BACKSLASH, DQUOTE>>, <<BACKSLASH, BACKSLASH>>}
BadEscapes == {<<BACKSLASH, 97>>}
BareUnits == {<<CR>>, <<LF>>}
QuotedUnits == PlainUnits \cup BadEscapes \cup BareUnits
UnitSeqs == StringsUpTo(QuotedUnits, MaxQuoted)
Quoted(us) == <<DQUOTE>> \o Concat(us) \o <<DQUOTE>>

\* Quoted strings, strings with an unescaped quote inside or no closing
\* quote, and literals with too few, enough and too many bytes.
StringInputs ==
  {Quoted(us) : us \in UnitSeqs}
    \cup {<<DQUOTE>> \o s : s \in StringsUpTo({97, DQUOTE, BACKSLASH}, MaxQuoted)}
    \cup UNION {{Sentinel(n) \o t : t \in StringsUpTo({97, CR}, n + 1)} : n \in 0..MaxLit}
    \cup {<<LBRACE, RBRACE>> \o CRLF, <<LBRACE, ZERO + 1, RBRACE, 97>>, <<97>>}

\* Atoms and what may follow them.
AstringInputs == StringsUpTo({97, RBRACKET, SP, PLUS, LPAREN}, MaxAtom) \ {<<>>}

\* Digit strings: short ones, and those around ULLONG_MAX = 2^64 - 1.
NumberStrings ==
  (StringsUpTo({0, 1, 9}, MaxDigits) \ {<<>>})
    \cup {ULLONG_MAX_DIV_10 \o <<d>> : d \in 0..9}
    \cup {<<0, 0>> \o ULLONG_MAX_DIV_10 \o <<d>> : d \in 0..9}
    \cup { <<1,0,0,0,0,0,0,0,0,0,0,0,0,0,0,0,0,0,0,0>>,
           <<1,8,4,4,6,7,4,4,0,7,3,7,0,9,5,5,1,6,2,0>>,
           <<2,8,4,4,6,7,4,4,0,7,3,7,0,9,5,5,1,6,1,5>>,
           <<9,9,9,9,9,9,9,9,9,9,9,9,9,9,9,9,9,9,9,9>>,
           <<1,0,0,0,0,0,0,0,0,0,0,0,0,0,0,0,0,0,0,0,0>>,
           ULLONG_MAX_DIGITS \o <<0>> }

\* {digits} CRLF, the head of a literal
LengthOnly(ds) == <<LBRACE>> \o DigitBytes(ds) \o <<RBRACE>> \o CRLF

\* a OK [UIDNEXT digits] x CRLF
NumberLine(ds) == <<97, 32, 79, 75, 32, 91, 85, 73, 68, 78, 69, 88, 84, 32>> \o DigitBytes(ds) \o <<93, 32, 120, 13, 10>>
NumberLines ==
  {NumberLine(ds) : ds \in NumberStrings \cup {<<>>}}
    \cup {LengthOnly(ds) : ds \in NumberStrings}

\* Lines of every first byte, with every word after the first SP and every
\* ending.
Heads == {<<97>>, <<65, 49>>, <<43>>, <<42>>, <<97, 43>>, <<>>}
StateWords == {<<79, 75>>, <<78, 79>>, <<66, 65, 68>>, <<66, 89, 69>>, <<80, 82, 69, 65, 85, 84, 72>>, <<70, 79, 79>>, <<111, 107>>, <<79, 75, 65, 89>>}
Texts == {<<120>>, <<91, 65, 76, 69, 82, 84, 93, 32, 120>>, <<>>}
Ends == {CRLF, <<>>, <<LF>>, <<CR>>, CRLF \o <<97>>}
StatusLine(h, k, t, e) == h \o <<SP>> \o k \o <<SP>> \o t \o e
StatusLines ==
  {StatusLine(h, k, t, e) : h \in Heads, k \in StateWords, t \in Texts, e \in Ends}

\* ESEARCH responses: a correlator or none, then up to MaxReturns returns.
Returns ==
  { [text |-> <<85, 73, 68>>, key |-> "UID", val |-> None],
    [text |-> <<67, 79, 85, 78, 84, 32, 53>>, key |-> "COUNT", val |-> PyLong(<<5>>)],
    [text |-> <<77, 73, 78, 32, 49>>, key |-> "MIN", val |-> PyLong(<<1>>)],
    [text |-> <<77, 65, 88, 32, 57>>, key |-> "MAX", val |-> PyLong(<<9>>)],
    [text |-> <<65, 76, 76, 32, 49, 58, 51, 44, 53>>, key |-> "ALL",
     val |-> PyList(<< [t |-> "tuple", v |-> <<PyLong(<<1>>), PyLong(<<3>>)>>],
                       PyLong(<<5>>) >>)] }
EsearchCases == [tag : BOOLEAN, returns : StringsUpTo(Returns, MaxReturns)]
RECURSIVE ReturnsText(_)
ReturnsText(rs) ==
  IF rs = <<>> THEN <<>> ELSE <<SP>> \o Head(rs).text \o ReturnsText(Tail(rs))
EsearchLine(c) ==
  <<42, 32, 69, 83, 69, 65, 82, 67, 72>> \o (IF c.tag THEN <<32, 40, 84, 65, 71, 32, 34, 97, 34, 41>> ELSE <<>>)
    \o ReturnsText(c.returns) \o CRLF
EsearchLines ==
  {EsearchLine(c) : c \in EsearchCases}
    \cup {<<42, 32, 69, 83, 69, 65, 82, 67, 72, 32, 32, 85, 73, 68, 32, 67, 79, 85, 78, 84, 32, 53, 13, 10>>, <<42, 32, 69, 83, 69, 65, 82, 67, 72, 32, 40, 84, 65, 71, 32, 34, 200, 34, 41, 32, 85, 73, 68, 13, 10>>,
          <<42, 32, 69, 83, 69, 65, 82, 67, 72, 32, 40, 84, 65, 71, 32, 97, 41, 32, 85, 73, 68, 13, 10>>, <<42, 32, 69, 83, 69, 65, 82, 67, 72, 32, 70, 79, 79, 13, 10>>}

\* LIST and LSUB responses: every spelling of INBOX and names around it, as
\* an atom, a quoted string and a literal.
InboxSpellings ==
  {[i \in 1..5 |-> IF i \in S THEN tolower(INBOX[i]) ELSE INBOX[i]] : S \in SUBSET (1..5)}
OtherNames ==
  {<<105, 110, 98, 111, 120, 101, 115>>, <<105, 110, 98, 111, 120, 47, 97>>, <<120, 105, 110, 98, 111, 120>>, <<105, 110, 98, 111>>, <<73, 78, 66, 79, 88, 46>>, <<97>>, <<49, 110, 98, 111, 120>>}
MailboxNames == InboxSpellings \cup OtherNames
MailboxForms == {"atom", "quoted", "literal"}
MailboxText(name, form) ==
  IF form = "atom" THEN name
  ELSE IF form = "quoted" THEN <<DQUOTE>> \o name \o <<DQUOTE>>
  ELSE Sentinel(Len(name)) \o name
ListHeads == {<<42, 32, 76, 73, 83, 84, 32, 40, 41, 32, 78, 73, 76, 32>>, <<42, 32, 76, 83, 85, 66, 32, 40, 92, 97, 32, 92, 98, 41, 32, 34, 47, 34, 32>>}
ListLine(h, name, form) == h \o MailboxText(name, form) \o CRLF
ListLines ==
  {ListLine(h, name, form) : h \in ListHeads, name \in MailboxNames, form \in MailboxForms}

\* Status responses and continuation requests whose resp-text has a code,
\* with text after it and without.
CodeHeads == {<<97, 32, 79, 75, 32>>, <<42, 32, 79, 75, 32>>, <<42, 32, 66, 89, 69, 32>>, <<43, 32>>}
Codes ==
  {<<91, 65, 76, 69, 82, 84, 93>>, <<91, 82, 69, 65, 68, 45, 79, 78, 76, 89, 93>>, <<91, 85, 73, 68, 78, 69, 88, 84, 32, 53, 93>>, <<91, 85, 78, 83, 69, 69, 78, 32, 49, 50, 93>>, <<91, 88, 93>>, <<91, 88, 32, 121, 32, 122, 93>>,
   <<91, 67, 65, 80, 65, 66, 73, 76, 73, 84, 89, 32, 73, 77, 65, 80, 52, 114, 101, 118, 49, 93>>, <<91, 85, 78, 83, 69, 69, 78, 93>>, <<91, 93>>, <<91, 88, 32, 93>>}
CodeTails == {<<>>, <<32, 116>>, <<32>>, <<116>>}
CodeLine(h, c, t) == h \o c \o t \o CRLF
CodeLines == {CodeLine(h, c, t) : h \in CodeHeads, c \in Codes, t \in CodeTails}

\* CAPABILITY data and the responses the model leaves out.
OtherLines ==
  {<<42, 32, 67, 65, 80, 65, 66, 73, 76, 73, 84, 89, 32, 73, 77, 65, 80, 52, 114, 101, 118, 49, 32, 73, 68, 76, 69, 13, 10>>, <<42, 32, 69, 78, 65, 66, 76, 69, 68, 13, 10>>, <<42, 32, 67, 65, 80, 65, 66, 73, 76, 73, 84, 89, 32, 13, 10>>}

\* FETCH responses: up to MaxItems attributes, each a body section with an
\* origin or none, a body structure under BODY or BODYSTRUCTURE, or a UID.
MaxItems == 2
SectionTexts == {<<>>, <<49>>, <<72, 69, 65, 68, 69, 82, 46, 70, 73, 69, 76, 68, 83, 32, 40, 65, 41>>}
Origins ==
  { [text |-> <<>>, val |-> None],
    [text |-> <<60, 48, 62>>, val |-> PyLong(StripZeros(<<0>>))] }
Contents ==
  { [text |-> <<78, 73, 76>>, val |-> None],
    [text |-> <<34, 97, 34>>, val |-> PyBytes(<<97>>)],
    [text |-> <<123, 49, 125, 13, 10, 41>>, val |-> PyBytes(<<41>>)] }
SectionItems ==
  { [text |-> <<66, 79, 68, 89, 91>> \o s \o <<93>> \o o.text \o <<SP>> \o c.text,
     key |-> "BODYSECTIONS", section |-> PyUnicode(s),
     val |-> PyTuple(<<c.val, o.val>>)] :
    s \in SectionTexts, o \in Origins, c \in Contents }
OtherItems ==
  { [text |-> <<66, 79, 68, 89, 32, 40, 34, 84, 69, 88, 84, 34, 32, 34, 112, 108, 97, 105, 110, 34, 32, 78, 73, 76, 32, 78, 73, 76, 32, 78, 73, 76, 32, 34, 55, 66, 73, 84, 34, 32, 49, 32, 50, 41>>,
     key |-> "BODY", section |-> None,
     val |-> PyStructSequence("TextBody",
               <<PyUnicode(<<116, 101, 120, 116>>), PyUnicode(<<112, 108, 97, 105, 110>>), PyDict(<<>>), None, None,
                 PyUnicode(<<55, 98, 105, 116>>), PyLong(<<1>>), PyLong(<<2>>),
                 None, None, None, None, PyList(<<>>)>>)],
    [text |-> <<66, 79, 68, 89, 83, 84, 82, 85, 67, 84, 85, 82, 69, 32, 40, 34, 97, 34, 32, 34, 98, 34, 32, 78, 73, 76, 32, 34, 105, 34, 32, 78, 73, 76, 32, 34, 56, 98, 105, 116, 34, 32, 51, 41>>,
     key |-> "BODYSTRUCTURE", section |-> None,
     val |-> PyStructSequence("BasicBody",
               <<PyUnicode(<<97>>), PyUnicode(<<98>>), PyDict(<<>>), PyUnicode(<<105>>), None,
                 PyUnicode(<<56, 98, 105, 116>>), PyLong(<<3>>),
                 None, None, None, None, PyList(<<>>)>>)],
    [text |-> <<85, 73, 68, 32, 53>>, key |-> "UID", section |-> None, val |-> PyLong(<<5>>)] }
FetchItems == SectionItems \cup OtherItems
FetchCases == StringsUpTo(FetchItems, MaxItems) \ {<<>>}
RECURSIVE ItemsText(_)
ItemsText(items) ==
  IF Len(items) = 1 THEN Head(items).text
  ELSE Head(items).text \o <<SP>> \o ItemsText(Tail(items))
FetchLine(items) == <<42, 32, 49, 32, 70, 69, 84, 67, 72, 32, 40>> \o ItemsText(items) \o <<RPAREN>> \o CRLF
\* Message data around them: other spellings, items that are no attribute,
\* truncated lines, and the attributes the model leaves out.
MessageDataLines ==
  { <<42, 32, 49, 32, 70, 69, 84, 67, 72, 32, 40, 98, 111, 100, 121, 91, 49, 93, 32, 78, 73, 76, 41, 13, 10>>, <<42, 32, 49, 32, 70, 69, 84, 67, 72, 32, 40, 66, 79, 68, 89, 32, 91, 49, 93, 32, 78, 73, 76, 41, 13, 10>>,
    <<42, 32, 49, 32, 70, 69, 84, 67, 72, 32, 40, 66, 79, 68, 89, 91, 49, 93, 60, 48, 32, 78, 73, 76, 41, 13, 10>>, <<42, 32, 49, 32, 70, 69, 84, 67, 72, 32, 40, 66, 79, 68, 89, 91, 49, 93, 60, 62, 32, 78, 73, 76, 41, 13, 10>>,
    <<42, 32, 49, 32, 70, 69, 84, 67, 72, 32, 40, 66, 79, 68, 89, 91, 49, 93, 78, 73, 76, 41, 13, 10>>, <<42, 32, 49, 32, 70, 69, 84, 67, 72, 32, 40, 66, 79, 68, 89, 91, 49, 93, 32, 78, 41, 13, 10>>,
    <<42, 32, 49, 32, 70, 69, 84, 67, 72, 32, 40, 66, 79, 68, 89>>, <<42, 32, 49, 32, 70, 69, 84, 67, 72, 32, 40, 66, 79, 68, 89, 91, 49>>, <<42, 32, 49, 32, 70, 69, 84, 67, 72, 32, 40, 66, 79, 68, 89, 91, 49, 93>>,
    <<42, 32, 49, 32, 70, 69, 84, 67, 72, 32, 40, 66, 79, 68, 89, 91, 49, 93, 32, 78, 73, 76>>, <<42, 32, 49, 32, 70, 69, 84, 67, 72, 32, 40, 41, 13, 10>>,
    <<42, 32, 49, 32, 70, 69, 84, 67, 72, 32, 40, 66, 79, 68, 89, 83, 69, 67, 84, 73, 79, 78, 83, 32, 49, 41, 13, 10>>, <<42, 32, 49, 32, 70, 69, 84, 67, 72, 32, 40, 66, 79, 68, 89, 32, 40, 40, 34, 97, 34, 32, 34, 98, 34, 32, 78, 73, 76, 32, 78, 73, 76, 32, 78, 73, 76, 32, 34, 55, 98, 105, 116, 34, 32, 49, 41, 32, 34, 109, 105, 120, 101, 100, 34, 41, 41, 13, 10>>,
    <<42, 32, 49, 32, 70, 69, 84, 67, 72, 32, 40, 66, 79, 68, 89, 32, 40, 34, 109, 101, 115, 115, 97, 103, 101, 34, 32, 34, 114, 102, 99, 56, 50, 50, 34, 32, 78, 73, 76, 32, 78, 73, 76, 32, 78, 73, 76, 32, 34, 55, 98, 105, 116, 34, 32, 49, 41, 41, 13, 10>>,
    <<42, 32, 49, 32, 70, 69, 84, 67, 72, 32, 40, 66, 79, 68, 89, 32, 40, 34, 97, 34, 32, 34, 98, 34, 32, 40, 34, 75, 34, 32, 34, 86, 34, 32, 34, 107, 34, 32, 34, 119, 34, 41, 32, 78, 73, 76, 32, 78, 73, 76, 32, 34, 55, 98, 105, 116, 34, 32, 49, 41, 41, 13, 10>>,
    <<42, 32, 49, 32, 70, 69, 84, 67, 72, 32, 40, 66, 79, 68, 89, 32, 40, 34, 97, 34, 32, 34, 98, 34, 32, 78, 73, 76, 32, 78, 73, 76, 32, 78, 73, 76, 32, 34, 55, 98, 105, 116, 34, 32, 49, 32, 78, 73, 76, 41, 41, 13, 10>>,
    <<42, 32, 49, 32, 70, 69, 84, 67, 72, 32, 40, 77, 79, 68, 83, 69, 81, 32, 40, 55, 41, 32, 82, 70, 67, 56, 50, 50, 46, 83, 73, 90, 69, 32, 57, 32, 82, 70, 67, 56, 50, 50, 32, 78, 73, 76, 32, 88, 45, 71, 77, 45, 77, 83, 71, 73, 68, 32, 49, 32, 82, 70, 67, 56, 50, 50, 46, 84, 69, 88, 84, 32, 34, 116, 34, 41, 13, 10>>,
    <<42, 32, 49, 32, 70, 69, 84, 67, 72, 32, 40, 70, 76, 65, 71, 83, 32, 40, 92, 83, 101, 101, 110, 41, 41, 13, 10>>, <<42, 32, 49, 32, 70, 69, 84, 67, 72, 32, 40, 69, 78, 86, 69, 76, 79, 80, 69, 32, 78, 73, 76, 41, 13, 10>>,
    <<42, 32, 49, 32, 70, 69, 84, 67, 72, 32, 40, 73, 78, 84, 69, 82, 78, 65, 76, 68, 65, 84, 69, 32, 34, 120, 34, 41, 13, 10>>, <<42, 32, 50, 32, 69, 88, 73, 83, 84, 83, 13, 10>>, <<42, 32, 51, 32, 69, 88, 80, 85, 78, 71, 69, 13, 10>>,
    <<42, 32, 48, 32, 82, 69, 67, 69, 78, 84, 13, 10>>, <<42, 32, 52, 32, 70, 79, 79, 13, 10>>, <<42, 32, 52, 32, 79, 75, 13, 10>>, <<42, 32, 52>>, <<42, 32, 52, 70, 69, 84, 67, 72, 13, 10>> }

ParserInputs ==
  {<<>>} \cup StringInputs \cup AstringInputs \cup NumberLines \cup StatusLines
    \cup EsearchLines \cup ListLines \cup CodeLines \cup OtherLines
    \cup MessageDataLines

(* ------------------------------------------------------------------ *)
(* State.                                                             *)
(* ------------------------------------------------------------------ *)
VARIABLES
  buf,            \* self->buf[0 .. buflen)
  buflen,         \* self->buflen
  bufcap,         \* self->bufcap
  start_find,     \* self->start_find
  literal_left,   \* self->literal_left
  input,          \* the server output not yet fed
  op,             \* the last call: "new", "feed", "get", "consume"
  arg,            \* its arguments
  res,            \* what it returned and the exception it set
  pre,            \* the scanner's fields when it was entered
  seen,           \* the sentinels get has recognised since the last consume
  nomem,          \* the reallocations that have failed
  expect,         \* the lines the stream was made of (round trip only)
  got             \* the lines the caller has taken out (round trip only)

scanner == <<buf, buflen, bufcap, start_find, literal_left>>
vars == <<buf, buflen, bufcap, start_find, literal_left, input, op, arg, res,
          pre, seen, nomem, expect, got>>

Fields == [buf |-> buf, buflen |-> buflen, bufcap |-> bufcap,
           start_find |-> start_find, literal_left |-> literal_left]

NoArg == [view |-> <<>>, n |-> Omitted]
Result(ret, exc, view) == [ret |-> ret, exc |-> exc, view |-> view]

\* PyType_GenericNew: a zeroed object.
InitScanner ==
  /\ buf = <<>>
  /\ buflen = 0
  /\ bufcap = 0
  /\ start_find = 0
  /\ literal_left = 0

InitCall ==
  /\ op = "new"
  /\ arg = NoArg
  /\ res = Result("None", "", 0)
  /\ pre = [buf |-> <<>>, buflen |-> 0, bufcap |-> 0, start_find |-> 0,
            literal_left |-> 0]
  /\ seen = {}
  /\ nomem = 0

NoLines == expect = <<>> /\ got = <<>>

Init == InitScanner /\ InitCall /\ NoLines /\ input \in Inputs

Min(a, b) == IF a < b THEN a ELSE b

\* feed(view, len_obj) where PyMem_RawRealloc, if called, succeeds.
FeedOk(view, len_obj) ==
  LET len == FeedLen(Len(view), len_obj)
      newlen == FeedNewLen(buflen, len)
  IN  /\ buflen' = newlen
      /\ bufcap' = IF newlen > bufcap THEN newlen ELSE bufcap
      /\ buf' = buf \o Take(view, len)
      /\ input' = From(input, len)
      /\ res' = Result("None", FeedPendingError(len_obj), 0)
      /\ UNCHANGED <<start_find, literal_left, seen, nomem>>

\* feed(view, len_obj) where PyMem_RawRealloc returns NULL. The bytes beyond
\* the allocation that buflen now covers are whatever memory holds there.
FeedNoMemory(view, len_obj) ==
  LET len == FeedLen(Len(view), len_obj)
      newlen == FeedNewLen(buflen, len)
  IN  /\ newlen > bufcap
      /\ nomem < MaxNoMem
      /\ buflen' = newlen
      /\ \E junk \in Strings(Garbage, len) : buf' = buf \o junk
      /\ res' = Result("NULL", "MemoryError", 0)
      /\ nomem' = nomem + 1
      /\ UNCHANGED <<bufcap, start_find, literal_left, input, seen>>

FeedCall(view, len_obj) ==
  /\ op' = "feed"
  /\ arg' = [view |-> view, n |-> len_obj]
  /\ pre' = Fields

\* feed(view): the caller hands over the next bytes of the stream.
Feed ==
  \E m \in 1..Min(MaxChunk, Len(input)) :
    /\ FeedCall(Take(input, m), Omitted)
    /\ FeedOk(Take(input, m), Omitted)
    /\ UNCHANGED <<expect, got>>

\* The length arguments feed can be called with, for a buffer of m bytes.
LenObjs(m) ==
  {Omitted} \cup {PyInt(n) : n \in (0 - m - 1)..(m + 1)} \cup {PyBig(1), PyBig(-1)}

\* feed(view, n) for every n.
FeedN ==
  \E m \in 0..Min(MaxChunk, Len(input)) :
    \E len_obj \in LenObjs(m) :
      /\ FeedCall(Take(input, m), len_obj)
      /\ FeedOk(Take(input, m), len_obj)
      /\ UNCHANGED <<expect, got>>

\* feed(view, n) when the allocator is out of memory.
FeedFail ==
  \E m \in 0..Min(MaxChunk, Len(input)) :
    \E len_obj \in LenObjs(m) :
      /\ FeedCall(Take(input, m), len_obj)
      /\ FeedNoMemory(Take(input, m), len_obj)
      /\ UNCHANGED <<expect, got>>

GetCall ==
  LET r == GetLoop(buf, buflen, start_find, literal_left, {})
  IN  /\ op' = "get"
      /\ arg' = NoArg
      /\ pre' = Fields
      /\ start_find' = r.start_find
      /\ literal_left' = r.literal_left
      /\ res' = Result(r.ret, r.exc, r.view)
      /\ seen' = seen \cup r.seen
      /\ UNCHANGED <<buf, buflen, bufcap, input, nomem>>

Get == GetCall /\ UNCHANGED <<expect, got>>

ConsumeCall(n_obj) ==
  LET n == PyLong_AsSize_t(n_obj)
  IN  /\ op' = "consume"
      /\ arg' = [view |-> <<>>, n |-> n_obj]
      /\ pre' = Fields
      /\ IF n.exc # ""
         THEN /\ res' = Result("NULL", n.exc, 0)
              /\ UNCHANGED <<scanner, seen>>
         ELSE IF TooMany(n.value, buflen)
         THEN /\ res' = Result("NULL", "consuming too many characters", 0)
              /\ UNCHANGED <<scanner, seen>>
         ELSE /\ buflen' = buflen - n.value
              /\ buf' = ConsumeBuf(buf, n.value)
              /\ start_find' = ConsumeReset.start_find
              /\ literal_left' = ConsumeReset.literal_left
              /\ res' = Result("None", "", 0)
              /\ seen' = {}
              /\ UNCHANGED bufcap
      /\ UNCHANGED <<input, nomem>>

\* The arguments consume is called with.
ConsumeArgs ==
  {PyInt(-1), PyInt(0), PyInt(1), PyInt(buflen), PyInt(buflen + 1), PyBig(1)}
    \cup (IF res.ret = "view" THEN {PyInt(res.view)} ELSE {})

Consume ==
  \E n_obj \in ConsumeArgs : ConsumeCall(n_obj) /\ UNCHANGED <<expect, got>>

Next == Feed \/ Get \/ Consume

Spec == Init /\ [][Next]_vars

\* Every way of calling the three methods, allocation failures included.
InitApi == InitScanner /\ InitCall /\ NoLines /\ input \in ApiInputs
NextApi == FeedN \/ FeedFail \/ Get \/ Consume
SpecApi == InitApi /\ [][NextApi]_vars

\* Feeding and scanning streams whose sentinel length is at the edge of the
\* length type.
InitBig == InitScanner /\ InitCall /\ NoLines /\ input \in BigStreams
NextBig == Feed \/ Get
SpecBig == InitBig /\ [][NextBig]_vars

\* Scanning without taking anything out: the stream arrives in chunks of any
\* size and the caller calls get whenever it likes, and never consume.
InitScan == InitScanner /\ InitCall /\ NoLines /\ input \in Inputs

\* feed(view) with the next bytes of the stream, however many.
FeedAny ==
  \E m \in 1..Len(input) :
    /\ FeedCall(Take(input, m), Omitted)
    /\ FeedOk(Take(input, m), Omitted)
    /\ UNCHANGED <<expect, got>>

NextScan == FeedAny \/ Get
SpecScan == InitScan /\ [][NextScan]_vars

\* Lines whose literal holds no bytes: a text, {0} CRLF or {00} CRLF, and
\* the line's CRLF at once.
ZeroLiteralLines ==
  { t \o <<LBRACE>> \o z \o <<RBRACE>> \o CRLF \o CRLF :
      t \in StringsUpTo(TextBytes, MaxText), z \in {<<ZERO>>, <<ZERO, ZERO>>} }

\* One such line arrives in chunks of any size, with gets at any time.
InitZero ==
  /\ InitScanner
  /\ InitCall
  /\ expect \in {<<l>> : l \in ZeroLiteralLines}
  /\ got = <<>>
  /\ input = Concat(expect)

NextZero == FeedAny \/ Get
SpecZero == InitZero /\ [][NextZero]_vars

\* The pending line: got holds the first view returned since new or the last
\* consume that succeeded. Chunks of any size, gets at any time, and consume
\* of the view, of nothing and of one byte.
PendGet ==
  /\ GetCall
  /\ got' = IF got = <<>> /\ res'.ret = "view" THEN <<Take(buf, res'.view)>> ELSE got
  /\ UNCHANGED expect

PendConsume ==
  \E n_obj \in {PyInt(0), PyInt(1)}
                 \cup (IF res.ret = "view" THEN {PyInt(res.view)} ELSE {}) :
    /\ ConsumeCall(n_obj)
    /\ got' = IF res'.ret = "None" THEN <<>> ELSE got
    /\ UNCHANGED expect

NextPend == FeedAny \/ PendGet \/ PendConsume
SpecPend == InitScan /\ [][NextPend]_vars

(* ------------------------------------------------------------------ *)
(* The round trip: the caller feeds legal output one byte at a time,  *)
(* calls get after each feed and consume after each successful get.   *)
(* ------------------------------------------------------------------ *)
InitRt ==
  /\ InitScanner
  /\ InitCall
  /\ expect \in LegalOutputs
  /\ got = <<>>
  /\ input = Concat(expect)

RtFeed ==
  /\ op \in {"new", "consume"} \/ (op = "get" /\ res.ret = "NULL")
  /\ input # <<>>
  /\ FeedCall(Take(input, 1), Omitted)
  /\ FeedOk(Take(input, 1), Omitted)
  /\ UNCHANGED <<expect, got>>

RtGet ==
  /\ op = "feed"
  /\ GetCall
  /\ UNCHANGED <<expect, got>>

RtConsume ==
  /\ op = "get"
  /\ res.ret = "view"
  /\ ConsumeCall(PyInt(res.view))
  /\ got' = Append(got, Take(buf, res.view))
  /\ UNCHANGED expect

NextRt == RtFeed \/ RtGet \/ RtConsume
SpecRt == InitRt /\ [][NextRt]_vars

\* The whole output has been fed and the last get has been answered.
RtDone ==
  /\ input = <<>>
  /\ op = "consume" \/ (op = "get" /\ res.ret = "NULL")

(* ------------------------------------------------------------------ *)
(* Recovery: one legal line arrives in chunks of any size, and the    *)
(* caller may call get after any of them. The caller stops feeding    *)
(* once a get has returned a view.                                    *)
(* ------------------------------------------------------------------ *)
InitRec ==
  /\ InitScanner
  /\ InitCall
  /\ expect \in {<<l>> : l \in LegalLines}
  /\ got = <<>>
  /\ input = Concat(expect)

RecFeed ==
  /\ ~(op = "get" /\ res.ret = "view")
  /\ Feed

RecGet == Get

NextRec == RecFeed \/ RecGet
SpecRec == InitRec /\ [][NextRec]_vars

(* ------------------------------------------------------------------ *)
(* The parser's entry points, each applied to the view in input.      *)
(* ------------------------------------------------------------------ *)
InitParser == InitScanner /\ InitCall /\ NoLines /\ input \in ParserInputs

ParseCall(name, r) ==
  /\ op' = name
  /\ arg' = [view |-> input, n |-> Omitted]
  /\ pre' = Fields
  /\ res' = [ret |-> IF r.ok THEN "value" ELSE "NULL", exc |-> r.exc, view |-> 0,
             val |-> r.val, msg |-> r.msg]
  /\ UNCHANGED <<scanner, input, seen, nomem, expect, got>>

ParseResponseLine == ParseCall("parse_response_line", parse_response_line(input))
ParseImapString == ParseCall("parse_imap_string", parse_imap_string(input))
ParseImapAstring == ParseCall("parse_imap_astring", parse_imap_astring(input))

NextParser == ParseResponseLine \/ ParseImapString \/ ParseImapAstring
SpecParser == InitParser /\ [][NextParser]_vars

\* parse_response_line on a FETCH response, expect the attributes it was
\* made of.
InitFetch ==
  /\ InitScanner
  /\ InitCall
  /\ expect \in FetchCases
  /\ got = <<>>
  /\ input = FetchLine(expect)

NextFetch == ParseResponseLine
SpecFetch == InitFetch /\ [][NextFetch]_vars

TypeOK ==
  /\ Len(buf) = buflen
  /\ start_find \in Nat
  /\ literal_left \in Nat

(* ------------------------------------------------------------------ *)
(* Claims.                                                            *)
(* ------------------------------------------------------------------ *)
IsView == op = "get" /\ res.ret = "view"

\* Whether the integer an argument object denotes is greater than len.
Exceeds(o, len) ==
  \/ o.kind = "int" /\ o.val > len
  \/ o.kind = "big" /\ o.val > 0

\* C1: feeding legal server output one byte at a time, with get after each
\* feed and consume after each successful get, yields exactly the lines of the
\* output in order and leaves the buffer empty.
C1_RoundTrip == RtDone => (got = expect /\ buflen = 0)

\* C2: a view that get returns extends past the payload of every sentinel
\* recognised in it, so that no CRLF within a payload ends the line.
C2_PayloadNotFramed ==
  IsView => \A s \in seen : res.view > s[1] + s[2]

\* C2 witness: get returned a line whose recognised literal holds a CRLF.
C2_Witness ==
  /\ IsView
  /\ \E s \in seen : \E i \in s[1]..(s[1] + s[2] - 2) :
       At(buf, i) = CR /\ At(buf, i + 1) = LF

\* C3: in every reachable state 0 <= scan_cursor <= len <= cap.
C3_CursorLenCap == 0 <= start_find /\ start_find <= buflen /\ buflen <= bufcap

\* C4: a feed that fails for lack of memory leaves the scanner as it was.
C4_NoMemoryKeepsState ==
  (op = "feed" /\ res.exc = "MemoryError") => Fields = pre

\* The number of bytes the claim has feed(buf, n) append, for |buf| = m.
ClaimedFeedCount(m, o) ==
  IF o.kind = "omitted" THEN m
  ELSE IF o.kind = "big" THEN (IF o.val > 0 THEN m ELSE 0)
  ELSE IF o.val > m THEN m
  ELSE IF o.val >= 0 THEN o.val
  ELSE IF o.val >= 0 - m THEN m + o.val
  ELSE 0

\* C5: feed(buf, n) appends exactly the first k bytes of buf, k as the claim
\* gives it for n, and leaves the bytes already there in place.
C5_FeedAppends ==
  (op = "feed" /\ res.exc # "MemoryError") =>
    LET k == ClaimedFeedCount(Len(arg.view), arg.n)
    IN  /\ buflen = pre.buflen + k
        /\ buf = pre.buf \o Take(arg.view, k)

\* C6: consume(n) with 0 <= n <= len drops exactly the first n bytes and
\* resets scan_cursor and literal_remaining, whatever the state before.
C6_ConsumeDrops ==
  (op = "consume" /\ arg.n.kind = "int" /\ arg.n.val >= 0
     /\ arg.n.val <= pre.buflen) =>
    /\ res = Result("None", "", 0)
    /\ buflen = pre.buflen - arg.n.val
    /\ Len(buf) = buflen
    /\ \A i \in 0..(buflen - 1) : At(buf, i) = At(pre.buf, i + arg.n.val)
    /\ start_find = 0
    /\ literal_left = 0

\* C6 witness: a consume of part of the buffer in the middle of a literal.
C6_Witness ==
  /\ op = "consume"
  /\ arg.n.kind = "int"
  /\ arg.n.val > 0
  /\ arg.n.val < pre.buflen
  /\ pre.literal_left > 0
  /\ pre.start_find > 0

\* C7 as claimed: consume(n) with n > len fails with the TooMany error and
\* changes nothing.
C7_TooManyError ==
  (op = "consume" /\ Exceeds(arg.n, pre.buflen)) =>
    /\ res = Result("NULL", "consuming too many characters", 0)
    /\ Fields = pre

\* C7 as amended: consume(n) with n > len fails and changes nothing; the
\* error is TooMany when n fits size_t and the conversion's OverflowError when
\* it does not.
C7_TooManyFails ==
  (op = "consume" /\ Exceeds(arg.n, pre.buflen)) =>
    /\ res.ret = "NULL"
    /\ res.exc = IF arg.n.kind = "int" THEN "consuming too many characters"
                 ELSE "OverflowError"
    /\ Fields = pre

\* C7 witness: a consume of one byte too many, refused in mid-literal.
C7_Witness ==
  /\ op = "consume"
  /\ arg.n = PyInt(pre.buflen + 1)
  /\ pre.buflen > 0
  /\ literal_left > 0

\* C8: after a successful get with view [0, E), scan_cursor = E - 2, the
\* offset of the CR of the terminating CRLF.
C8_CursorAtCR ==
  IsView =>
    /\ start_find = res.view - 2
    /\ At(buf, start_find) = CR
    /\ At(buf, start_find + 1) = LF

\* C8 witness: a successful get of a line with a literal.
C8_Witness == IsView /\ seen # {} /\ pre.start_find # start_find

\* C9: after a successful get, a second get with nothing in between returns
\* the same view and leaves the same state.
C9_GetIdempotent ==
  IsView =>
    LET r == GetLoop(buf, buflen, start_find, literal_left, {})
    IN  /\ r.ret = "view"
        /\ r.view = res.view
        /\ r.start_find = start_find
        /\ r.literal_left = literal_left

\* C9 witness: the second of two successful gets in a row, with bytes of a
\* later line already in the buffer.
C9_Witness ==
  /\ IsView
  /\ pre = Fields
  /\ pre.start_find = res.view - 2
  /\ buflen > res.view

\* C10: get takes a CRLF for a literal sentinel only after {DIGITS+}, and
\* returns any other line that ends in '}' as complete at that CRLF.
C10_SentinelShape ==
  /\ \A s \in seen : SentinelBefore(buf, s[1] - 2)
  /\ (op = "get" /\ pre.literal_left = 0) =>
       LET c == memmem(buf, pre.start_find, buflen)
       IN  (c # -1 /\ ~SentinelBefore(buf, c)) =>
             (res.ret = "view" /\ res.view = c + 2)

\* C10 witness: get returned a line that ends in '}' without being a literal:
\* {} before the CRLF, or digits and '}' reaching back to the buffer's start.
C10_Witness ==
  /\ IsView
  /\ res.view >= 4
  /\ At(buf, res.view - 3) = RBRACE
  /\ \/ At(buf, res.view - 4) = LBRACE
     \/ \A i \in 0..(res.view - 4) : isdigit(At(buf, i))

\* An earlier get of the scenario failed and moved the cursor: the caller
\* only feeds while no get has returned a view, and only get moves the cursor.
EarlierGetFailed == pre.start_find > 0 \/ pre.literal_left > 0

\* C11: when get has failed with an incomplete line or literal on a proper
\* prefix of a legal line, the get that follows the feeding of the remaining
\* bytes returns a view of exactly that line.
C11_IncompleteRecovers ==
  (op = "get" /\ input = <<>> /\ expect # <<>> /\ buf = expect[1]
     /\ EarlierGetFailed)
    => (res.ret = "view" /\ Take(buf, res.view) = expect[1])

\* C12: a sentinel whose digit span denotes a value beyond the unsigned length
\* type makes get fail with the range error, return no view and leave
\* literal_left unset.
C12_BadLiteralLength ==
  (op = "get" /\ pre.literal_left = 0) =>
    LET c == memmem(buf, pre.start_find, buflen)
    IN  (c # -1 /\ SentinelBefore(buf, c) /\ SpanBefore(buf, c) \in OverflowSpans)
          => (res.ret = "NULL" /\ res.exc = "ERANGE" /\ literal_left = 0)

\* C12 witness: get met the sentinel {18446744073709551616} and failed with
\* the range error.
C12_Witness ==
  /\ op = "get"
  /\ res.exc = "ERANGE"
  /\ pre.literal_left = 0
  /\ LET c == memmem(buf, pre.start_find, buflen)
     IN  /\ c # -1
         /\ SentinelBefore(buf, c)
         /\ SpanBefore(buf, c) = <<1,8,4,4,6,7,4,4,0,7,3,7,0,9,5,5,1,6,1,6>>

(* ------------------------------------------------------------------ *)
(* Claims about the parser.                                           *)
(* ------------------------------------------------------------------ *)
IsParseCall == op \in {"parse_response_line", "parse_imap_string", "parse_imap_astring"}
IsValue == res.ret = "value" /\ res.exc = ""
IsParseError == res.ret = "NULL" /\ res.exc = "ParseError" /\ res.val = None

\* C13: each of the three entry points fails with ParseError, and returns no
\* value, on a view of length zero.
C13_EmptyView == (IsParseCall /\ input = <<>>) => IsParseError

\* C13 witness: parse_imap_astring was handed the empty view.
C13_Witness ==
  /\ op = "parse_imap_astring"
  /\ input = <<>>
  /\ res.msg = "nothing to parse"

\* What the production of the entry point that was called makes of the view.
Production ==
  IF op = "parse_response_line" THEN parse_response(input, 0)
  ELSE IF op = "parse_imap_string" THEN parse_string(input, 0)
  ELSE parse_astring(input, 0)

\* C14: an entry point returns a value only when its production consumed the
\* whole view, and then the production's value; when the production stops
\* short of the end the call fails with ParseError and returns nothing.
C14_WholeView ==
  (IsParseCall /\ input # <<>>) =>
    /\ res.ret = "value" =>
         (Production.ok /\ Production.cur = Len(input) /\ res.val = Production.val)
    /\ (Production.ok /\ Production.cur # Len(input)) => IsParseError

\* C14 witness: a string was parsed and bytes were left after it.
C14_Witness ==
  /\ op = "parse_imap_string"
  /\ Production.ok
  /\ Production.cur < Len(input)
  /\ res.msg = "trailing characters after string"

\* Whether the value of a digit string is at most 2^64 - 1: it has fewer
\* significant digits than 18446744073709551615, or as many and is not after
\* it in the order of digit strings.
FitsUnsigned64(ds) ==
  LET sig == StripZeros(ds)
  IN  \/ Len(sig) < 20
      \/ Len(sig) = 20 /\ ~DigitsGreater(sig, <<1,8,4,4,6,7,4,4,0,7,3,7,0,9,5,5,1,6,1,5>>)

\* The code_data of the resp-text of the tagged response that was returned.
CodeDataReturned == res.val.v[3].v[3]

\* Read as the argument of UIDNEXT: the value, or the overflow error.
NumberAsCodeData ==
  \A ds \in NumberStrings :
    (op = "parse_response_line" /\ input = NumberLine(ds)) =>
      IF FitsUnsigned64(ds)
      THEN IsValue /\ CodeDataReturned = PyLong(StripZeros(ds))
      ELSE IsParseError /\ res.msg = "number overflowed"

\* Read as the length of a literal: the digit strings refused as overflowing
\* are those of a value above 2^64 - 1.
NumberAsLiteralLength ==
  \A ds \in NumberStrings :
    (op = "parse_imap_string" /\ input = LengthOnly(ds)) =>
      (res.msg = "number overflowed" <=> ~FitsUnsigned64(ds))

\* C15: a number is read from every non-empty digit string whose value is at
\* most 2^64 - 1, leading zeros or not, and is that value; a digit string of
\* a greater value is a ParseError, never a wrapped value.
C15_NumberRange == NumberAsCodeData /\ NumberAsLiteralLength

\* C15 witness: 18446744073709551615 behind two zeros was read as a number.
C15_Witness ==
  /\ op = "parse_response_line"
  /\ input = NumberLine(<<0, 0>> \o ULLONG_MAX_DIGITS)
  /\ IsValue
  /\ CodeDataReturned = PyLong(ULLONG_MAX_DIGITS)

\* The word after the first SP of a line: the bytes up to the next SP, CR
\* or LF.
RECURSIVE WordFrom(_, _)
WordFrom(b, i) ==
  IF i > Len(b) \/ b[i] \in {SP, CR, LF} THEN <<>> ELSE <<b[i]>> \o WordFrom(b, i + 1)
WordAfterTag(b) ==
  LET i == CHOOSE i \in 1..Len(b) : b[i] = SP /\ \A j \in 1..(i - 1) : b[j] # SP
  IN  WordFrom(b, i + 1)
EndsWithCRLF(b) == Len(b) >= 2 /\ SubSeq(b, Len(b) - 1, Len(b)) = CRLF

\* C16: a response line that parses is a ContinueReq when its first byte is
\* '+', an UntaggedResponse when it is '*' and a TaggedResponse otherwise; a
\* tagged line parses only with OK, NO or BAD after "tag SP" and CRLF at its
\* end, and each such line with a tag and a text does parse, to its tag, its
\* condition and its text.
C16_FirstByteDispatch ==
  /\ (op = "parse_response_line" /\ res.ret = "value") =>
       /\ input[1] = PLUS => res.val.t = "ContinueReq"
       /\ input[1] = STAR => res.val.t = "UntaggedResponse"
       /\ input[1] \notin {PLUS, STAR} =>
            /\ res.val.t = "TaggedResponse"
            /\ \E i \in 1..Len(input) : input[i] = SP
            /\ imap4_token(WordAfterTag(input)) \in {"OK", "NO", "BAD"}
            /\ EndsWithCRLF(input)
  /\ \A h \in {<<97>>, <<65, 49>>}, k \in {<<79, 75>>, <<78, 79>>, <<66, 65, 68>>} :
       (op = "parse_response_line" /\ input = StatusLine(h, k, <<120>>, CRLF)) =>
         /\ IsValue
         /\ res.val = PyStructSequence("TaggedResponse",
              << PyUnicode(h), Token_FromLong(imap4_token(k)),
                 PyStructSequence("ResponseText", <<PyUnicode(<<120>>), None, None>>) >>)

\* C16 witness: a tagged BYE was refused.
C16_Witness ==
  /\ op = "parse_response_line"
  /\ input = StatusLine(<<97>>, <<66, 89, 69>>, <<120>>, CRLF)
  /\ IsParseError
  /\ res.msg = "unknown tagged response"

\* The returned map an ESEARCH response with the returns rs stands for.
RECURSIVE ReturnedMap(_, _)
ReturnedMap(rs, map) ==
  IF rs = <<>> THEN map
  ELSE ReturnedMap(Tail(rs),
         IF Head(rs).key = "UID" THEN map
         ELSE [k \in DOMAIN map \cup {Head(rs).key} |->
                 IF k = Head(rs).key THEN Head(rs).val ELSE map[k]])

\* The Esearch an ESEARCH response stands for: its tag if it has a
\* correlator, uid set by a UID among its returns, and its other returns.
EsearchValue(c) ==
  PyStructSequence("Esearch",
    << IF c.tag THEN PyUnicode(<<97>>) ELSE None,
       PyBool(\E i \in 1..Len(c.returns) : c.returns[i].key = "UID"),
       PyDict(ReturnedMap(c.returns, <<>>)) >>)

\* C17: an ESEARCH response parses with a correlator and without one, to the
\* Esearch its returns stand for; * ESEARCH UID COUNT 5 CRLF parses to
\* Esearch(tag absent, uid true, returned {COUNT: 5}).
C17_EsearchReturns ==
  \A c \in EsearchCases :
    (op = "parse_response_line" /\ input = EsearchLine(c)) =>
      /\ IsValue
      /\ res.val = PyStructSequence("UntaggedResponse",
                     <<Token_FromLong("ESEARCH"), EsearchValue(c)>>)

\* The bytes a sequence of plain units stands for: each byte, and each
\* escaped byte without its backslash.
RECURSIVE Unescaped(_)
Unescaped(us) ==
  IF us = <<>> THEN <<>>
  ELSE <<Head(us)[Len(Head(us))]>> \o Unescaped(Tail(us))

HasUnit(us, units) == \E i \in 1..Len(us) : us[i] \in units

\* C18: in a quoted string a backslash escapes only '"' and '\'; an escape
\* of another byte is a ParseError, and so is a bare CR or LF between the
\* quotes; a string of plain bytes and the two escapes is returned unescaped.
C18_QuotedEscapes ==
  \A us \in UnitSeqs :
    (op = "parse_imap_string" /\ input = Quoted(us)) =>
      IF HasUnit(us, BadEscapes) \/ HasUnit(us, BareUnits)
      THEN IsParseError
      ELSE IsValue /\ res.val = PyBytes(Unescaped(us))

\* The mailbox of the List of the untagged response that was returned.
MailboxReturned == res.val.v[2].v[3]

Lower(s) == [i \in 1..Len(s) |-> tolower(s[i])]

\* C19: a mailbox name equal to INBOX in any mix of cases is returned as the
\* bytes INBOX, and every other name byte for byte, those that start with or
\* contain inbox too; as an atom, a quoted string or a literal.
C19_InboxNormalised ==
  \A h \in ListHeads, name \in MailboxNames, form \in MailboxForms :
    (op = "parse_response_line" /\ input = ListLine(h, name, form)) =>
      /\ IsValue
      /\ MailboxReturned =
           PyBytes(IF Lower(name) = Lower(<<73, 78, 66, 79, 88>>) THEN <<73, 78, 66, 79, 88>> ELSE name)

\* C19 witness: the quoted name iNbOx came back as INBOX.
C19_Witness ==
  /\ op = "parse_response_line"
  /\ input = ListLine(<<42, 32, 76, 73, 83, 84, 32, 40, 41, 32, 78, 73, 76, 32>>, <<105, 78, 98, 79, 120>>, "quoted")
  /\ IsValue
  /\ MailboxReturned = PyBytes(<<73, 78, 66, 79, 88>>)

\* The ResponseText a line of CodeLines parses to: the untagged response's
\* data, the tagged response's text or the continuation request's text.
ResponseTextOf(val) ==
  IF val.t = "UntaggedResponse" THEN val.v[2]
  ELSE IF val.t = "TaggedResponse" THEN val.v[3]
  ELSE val.v[1]

\* C20: a resp-text whose [CODE args] is directly followed by CRLF parses
\* whenever the same line with text after the code does, to an absent text
\* and the code and code_data of the line with text.
C20_CodeWithoutText ==
  \A h \in CodeHeads, c \in Codes :
    (op = "parse_response_line" /\ input = CodeLine(h, c, <<>>)) =>
      LET with == parse_response_line(CodeLine(h, c, <<32, 116>>))
      IN  with.ok =>
            /\ IsValue
            /\ res.val.t = with.val.t
            /\ ResponseTextOf(res.val).v[1] = None
            /\ ResponseTextOf(with.val).v[1] = PyUnicode(<<116>>)
            /\ ResponseTextOf(res.val).v[2] = ResponseTextOf(with.val).v[2]
            /\ ResponseTextOf(res.val).v[3] = ResponseTextOf(with.val).v[3]

\* C20 witness: a OK [UIDNEXT 5] CRLF parsed to an absent text, the token and
\* the number.
C20_Witness ==
  /\ op = "parse_response_line"
  /\ input = CodeLine(<<97, 32, 79, 75, 32>>, <<91, 85, 73, 68, 78, 69, 88, 84, 32, 53, 93>>, <<>>)
  /\ IsValue
  /\ ResponseTextOf(res.val) =
       PyStructSequence("ResponseText", <<None, Token_FromLong("UIDNEXT"), PyLong(<<5>>)>>)
\* The payload of a recognised sentinel s reaches beyond the bytes buffered.
PayloadShort(s) == s[1] + s[2] > buflen

\* C22: a get entered with literal_remaining = L > 0 and a < L bytes after
\* scan_cursor moves scan_cursor by a to len, leaves L - a > 0 and reports
\* IncompleteLiteral; with at least L bytes it moves scan_cursor by exactly L,
\* clears literal_remaining and goes on with the CRLF search from there. The
\* same holds for a literal the loop has just recognised.
C22_LiteralSkip ==
  /\ (op = "get" /\ pre.literal_left > 0) =>
       LET L == pre.literal_left
           a == pre.buflen - pre.start_find
           c == memmem(buf, pre.start_find + L, buflen)
       IN  IF a < L
           THEN /\ res = Result("NULL", "incomplete literal", 0)
                /\ start_find = pre.start_find + a
                /\ start_find = buflen
                /\ literal_left = L - a
                /\ literal_left > 0
           ELSE /\ c = -1 =>
                     /\ res = Result("NULL", "incomplete line", 0)
                     /\ literal_left = 0
                /\ (c # -1 /\ ~IsLiteralAt(buf, c)) =>
                     /\ res = Result("view", "", c + 2)
                     /\ start_find = c
                     /\ literal_left = 0
                /\ (c # -1 /\ IsLiteralAt(buf, c)) =>
                     \E s \in seen : s[1] = c + 2
  /\ op = "get" =>
       \A s \in seen :
         PayloadShort(s) =>
           /\ res = Result("NULL", "incomplete literal", 0)
           /\ start_find = buflen
           /\ literal_left = s[1] + s[2] - buflen

\* C22 witness: a get entered in mid-literal found some of the payload's
\* bytes and not all of them.
C22_Witness ==
  /\ op = "get"
  /\ pre.literal_left > 1
  /\ pre.buflen > pre.start_find
  /\ pre.buflen - pre.start_find < pre.literal_left
IsIncompleteLine == op = "get" /\ res.exc = "incomplete line"

\* C23: whenever get reports IncompleteLine, scan_cursor is max(0, len - 1)
\* and literal_remaining is 0 afterwards.
C23_IncompleteLineCursor ==
  IsIncompleteLine =>
    /\ res = Result("NULL", "incomplete line", 0)
    /\ start_find = (IF buflen > 0 THEN buflen - 1 ELSE 0)
    /\ literal_left = 0

\* C23 witness: a get entered in mid-literal skipped the rest of the payload,
\* found no CRLF after it and moved the cursor back to the last byte.
C23_Witness ==
  /\ IsIncompleteLine
  /\ pre.literal_left > 0
  /\ buflen > pre.start_find + pre.literal_left
IsFailedGet == op = "get" /\ res.ret = "NULL"

\* C24: between two successive failing gets on one buffer, with feeds and no
\* consume in between, scan_cursor does not decrease. Without consume no get
\* fails after one that succeeded, and feed leaves the cursor alone, so the
\* cursor a failing get is entered with is the one the failing get before it
\* left.
C24_CursorMonotone == IsFailedGet => start_find >= pre.start_find

\* C24 witness: a failing get that an earlier failing get had left the cursor
\* for, after bytes were fed, moved the cursor on.
C24_Witness ==
  /\ IsFailedGet
  /\ pre.start_find > 0
  /\ pre.literal_left = 0
  /\ start_find > pre.start_find
\* C25: a line whose {0} CRLF is followed at once by the line's CRLF comes
\* out as one view that ends at that second CRLF, however its bytes are split
\* across feeds: no get reports IncompleteLiteral, a get returns nothing
\* shorter, and the get after the last byte returns the line.
C25_ZeroLiteral ==
  op = "get" =>
    /\ res.exc # "incomplete literal"
    /\ literal_left = 0
    /\ res.ret = "view" =>
         /\ res.view = Len(expect[1])
         /\ Take(buf, res.view) = expect[1]
    /\ input = <<>> => res = Result("view", "", Len(expect[1]))

\* C25 witness: the line came in two feeds split between the sentinel's CR
\* and LF, with a get after each, and the second get returned it.
C25_Witness ==
  /\ IsView
  /\ input = <<>>
  /\ buf = expect[1]
  /\ pre.start_find = buflen - 4
  /\ At(buf, pre.start_find) = CR
  /\ seen # {}
\* What a caller learns from a get: the length of the view, or the error.
Outcome(r) == <<r.ret, r.exc, r.view>>

\* C26: whatever the split of the bytes across feeds and the gets in between,
\* a get has the outcome of the get of a new scanner that was fed the same
\* bytes in one feed.
C26_ChunkingIndependent ==
  op = "get" => Outcome(res) = Outcome(GetLoop(buf, buflen, 0, 0, {}))
\* A legal line with every byte of its literal's payload replaced by 'a': the
\* first CRLF of a legal line ends its sentinel, unless it ends the line.
Blank(line) ==
  LET c == memmem(line, 0, Len(line))
      n == strtoul(line, DigitsBack(line, c - 1), Len(line)).value
  IN  IF c = Len(line) - 2 THEN line
      ELSE [i \in 1..Len(line) |->
              IF i - 1 >= c + 2 /\ i - 1 < c + 2 + n THEN 97 ELSE line[i]]

\* The buffer of the run on the stream with blank payloads, as long as the
\* two runs have returned views of the same lengths.
BlankBuf ==
  Take(Concat([i \in 1..(Len(expect) - Len(got)) |-> Blank(expect[Len(got) + i])]),
       buflen)

\* C27: what get decides depends on the length of a literal's payload and not
\* on its bytes: a get has the outcome of the same get in the run on the
\* stream that differs only in the values of the payload bytes.
C27_PayloadOpaque ==
  op = "get" =>
    Outcome(res) =
      Outcome(GetLoop(BlankBuf, buflen, pre.start_find, pre.literal_left, {}))
\* C28: once get has returned a view, every later get returns a view of the
\* same length over the same bytes, whatever is fed in between, until consume
\* is called; no later line comes out before that.
C28_PendingStable ==
  (op = "get" /\ got # <<>>) =>
    /\ res = Result("view", "", Len(got[1]))
    /\ Take(buf, res.view) = got[1]

\* C28 witness: a get returned the pending line again after a whole later
\* line had been fed behind it.
C28_Witness ==
  /\ IsView
  /\ got # <<>>
  /\ pre.start_find = res.view - 2
  /\ memmem(buf, res.view, buflen) # -1
\* The sentinel recognised last: the one that lies furthest in the buffer.
LastSeen == CHOOSE s \in seen : \A t \in seen : t[1] <= s[1]

\* C29: while the payload of the sentinel {N} CRLF that ends at P is not
\* skipped to its end, scan_cursor + literal_remaining = P + N after every
\* get; a get that reports IncompleteLiteral leaves scan_cursor = len and
\* literal_remaining > 0; feed changes neither of the two.
C29_LiteralAccounting ==
  /\ (op = "get" /\ literal_left > 0) =>
       /\ seen # {}
       /\ start_find + literal_left = LastSeen[1] + LastSeen[2]
  /\ (op = "get" /\ res.exc = "incomplete literal") =>
       /\ start_find = buflen
       /\ literal_left > 0
  /\ op = "feed" =>
       /\ start_find = pre.start_find
       /\ literal_left = pre.literal_left

\* C29 witness: the get that recognised a sentinel found a part of its
\* payload and reported IncompleteLiteral.
C29_Witness ==
  /\ op = "get"
  /\ res.exc = "incomplete literal"
  /\ pre.literal_left = 0
  /\ buflen > LastSeen[1]
  /\ literal_left < LastSeen[2]
\* C30: a get, whether it succeeds or fails, changes neither the bytes of the
\* buffer nor len nor cap, and a view it returns begins at offset 0, is
\* between 2 and len bytes long and ends with CR LF. A view is the buffer's
\* first res.view bytes.
C30_GetReadOnly ==
  op = "get" =>
    /\ buf = pre.buf
    /\ buflen = pre.buflen
    /\ bufcap = pre.bufcap
    /\ res.ret = "view" =>
         /\ 2 <= res.view
         /\ res.view <= buflen
         /\ At(buf, res.view - 2) = CR
         /\ At(buf, res.view - 1) = LF

\* C30 witness: a get returned the shortest view there is, a bare CRLF, with
\* more bytes behind it in the buffer.
C30_Witness ==
  /\ IsView
  /\ res.view = 2
  /\ buflen > 2
  /\ buf = pre.buf

\* The items of the Fetch a FETCH response was parsed to, and the dict of
\* the body sections among them.
FetchItemsReturned == res.val.v[2].v[2].v
BodySectionsReturned == FetchItemsReturned["BODYSECTIONS"].v

\* The places of the body sections among the attributes, and of the body
\* sections that no later one names again.
SectionPlaces(items) == {i \in 1..Len(items) : items[i].key = "BODYSECTIONS"}
LastPlaces(items) ==
  {i \in SectionPlaces(items) :
     \A j \in SectionPlaces(items) : j > i => items[j].section # items[i].section}

====
